---- MODULE Spec2Model ----
(***************************************************************************)
(* Warehouse robots: the congestion-aware A* planner (pathfinding.py), the *)
(* movement primitives of a robot (robot.py), the grid queries of the      *)
(* warehouse (warehouse.py) and the tick engine of RobotController         *)
(* (main.py), and the layout optimizers with their evaluation, neighbor    *)
(* generation and Pareto archive (optimization.py).                        *)
(*                                                                         *)
(* A cell is the tuple <<x, y>>.  Energies are counted in units of 0.5, so *)
(* that energy_per_move (1.0) is 2 and energy_per_blocked_attempt (0.5) is *)
(* 1, and a congestion penalty p adds 2 * p.                               *)
(***************************************************************************)
EXTENDS Integers, Sequences, FiniteSets, TLC

\* ------------------------------------------------------------------------
\* Bounds of the model
\* ------------------------------------------------------------------------
\* largest max_steps handed to execute_all_steps
MaxSteps == 2
\* largest congestion count of a cell in the planner's inputs
MaxCongestion == 2
\* largest value of one objective in the metrics handed to the optimizers
MaxMetric == 1
\* largest iters handed to an optimizer
MaxIters == 2
\* longest chain of get_neighbor_layout calls
MaxChain == 3
\* largest num_robots handed to evaluate_layout
MaxNumRobots == 3

\* ------------------------------------------------------------------------
\* Program constants
\* ------------------------------------------------------------------------
\* a_star_search(..., congestion_penalty=1)
congestion_penalty == 1
\* Robot.energy_per_move = 1.0, in units of 0.5
energy_per_move == 2
\* a blocked attempt charged like a move
energy_per_blocked_attempt_as_move == energy_per_move
\* Robot.energy_per_blocked_attempt = 0.5, in units of 0.5
energy_per_blocked_attempt == 1
\* execute_all_steps(self, max_steps=50)
default_max_steps == 50

VARIABLES
    \* Warehouse
    width, height, aisles, entry_docks, packing_stations, active_robots,
    blocked_positions, congestion_map,
    \* Robot (one entry per robot id)
    current_position, target_position, movement_history,
    total_energy_spent, successful_moves, blocked_attempts,
    total_congestion_penalty,
    \* RobotController
    robot_commands, step_count,
    \* execute_all_steps / execute_one_step: argument, locals, position
    max_steps, movements_made, robots_with_commands, robots_to_replan,
    idx, replan_idx, pc, outcome,
    \* the path returned by a_star_search when it is called on its own
    path,
    \* the locals of a_star_search when it is run one loop iteration at a
    \* time; pushed lists the open-set entries in the order of their pushes
    search,
    \* evaluate_layout: argument, returned metrics, and the caller's
    \* warehouse as it was when the call was made
    num_robots, metrics, at_call,
    \* get_neighbor_layout: the cells chosen for the swap
    storage_to_become_aisle, aisle_to_become_storage,
    \* the Warehouse objects of an optimizer run: layout_id is the id of the
    \* object that the warehouse and robot variables describe, layouts holds
    \* the other objects by id (0 is the initial warehouse, k the deep copy
    \* made in iteration k)
    layouts, layout_id,
    \* simulated_annealing_optimizer and mosa_optimizer: loop counter and
    \* locals; evaluated is the set of all costs computed so far, submitted
    \* the set of all metrics handed to update_archive or put in the archive
    \* current_solution is the number of the iteration that produced the
    \* current layout, 0 for the initial warehouse
    iters, iteration, current_solution, current_metrics, neighbor_metrics,
    weights, current_cost, best_cost, evaluated, archive, submitted,
    \* dominates: three metrics tuples and the verdicts of their comparisons
    tuple_a, tuple_b, tuple_c, verdict

warehouseVars == <<width, height, aisles, entry_docks, packing_stations,
                   active_robots, blocked_positions, congestion_map>>
robotVars == <<current_position, target_position, movement_history,
               total_energy_spent, successful_moves, blocked_attempts,
               total_congestion_penalty>>
controllerVars == <<robot_commands, step_count, max_steps, movements_made,
                    robots_with_commands, robots_to_replan, idx, replan_idx,
                    pc, outcome>>
evaluationVars == <<num_robots, metrics, at_call>>
neighborVars == <<storage_to_become_aisle, aisle_to_become_storage,
                  layouts, layout_id>>
loopVars == <<iters, iteration, current_solution, current_metrics,
              neighbor_metrics>>
annealingVars == <<weights, current_cost, best_cost, evaluated>>
archiveVars == <<archive, submitted>>
dominatesVars == <<tuple_a, tuple_b, tuple_c, verdict>>
optimizerVars == <<evaluationVars, neighborVars, loopVars, annealingVars,
                   archiveVars, dominatesVars>>
vars == <<warehouseVars, robotVars, controllerVars, path, search,
          optimizerVars>>

\* ------------------------------------------------------------------------
\* Sequences and cells
\* ------------------------------------------------------------------------
Range(s) == {s[i] : i \in DOMAIN s}

Abs(n) == IF n < 0 THEN -n ELSE n

GridCells(w, h) == {<<x, y>> : x \in 0..(w - 1), y \in 0..(h - 1)}

\* the ids of the robots a warehouse can hold, in the order of their creation
RobotIds == <<"ROBOT_000", "ROBOT_001">>

\* the ids of Warehouse.active_robots
Robots == Range(active_robots)

\* ------------------------------------------------------------------------
\* Warehouse queries
\* ------------------------------------------------------------------------
is_valid_position(x, y) == 0 <= x /\ x < width /\ 0 <= y /\ y < height

is_blocked_position(x, y) == <<x, y>> \in blocked_positions

is_position_in_aisle(x, y) ==
    \/ \E i \in DOMAIN aisles : <<x, y>> \in Range(aisles[i])
    \/ <<x, y>> \in Range(entry_docks)
    \/ <<x, y>> \in Range(packing_stations)

\* every cell taken to have no recorded entry
get_congestion_unrecorded(x, y) == 0

get_congestion(x, y) ==
    IF <<x, y>> \in DOMAIN congestion_map THEN congestion_map[<<x, y>>] ELSE 0

\* a visit that leaves the congestion map as it is
record_congestion_dropped(x, y) == congestion_map

\* the congestion map after record_congestion(x, y)
record_congestion(x, y) ==
    [c \in DOMAIN congestion_map \cup {<<x, y>>} |->
        IF c = <<x, y>> THEN get_congestion(x, y) + 1 ELSE congestion_map[c]]

\* the congestion map left as it is
reset_congestion_skipped == congestion_map

\* the congestion map after reset_congestion(): no cell has a count
reset_congestion == [c \in DOMAIN congestion_map |-> 0]

get_robot_positions == [r \in Robots |-> current_position[r]]

\* ------------------------------------------------------------------------
\* pathfinding.py
\* ------------------------------------------------------------------------
heuristic(a, b) == Abs(a[1] - b[1]) + Abs(a[2] - b[2])

\* order of the heap entries (f_score, (x, y)): Python's tuple comparison
TupleLess(e1, e2) ==
    \/ e1[1] < e2[1]
    \/ e1[1] = e2[1] /\ e1[2][1] < e2[2][1]
    \/ e1[1] = e2[1] /\ e1[2][1] = e2[2][1] /\ e1[2][2] < e2[2][2]

\* heapq.heappop: the smallest entry.  No position is in the open set twice
\* (pathfinding.py:107), so the smallest entry is unique.
heappop(open_set) ==
    CHOOSE e \in open_set : \A o \in open_set \ {e} : TupleLess(e, o)

\* for dx, dy in [(0, 1), (0, -1), (1, 0), (-1, 0)]
neighbor_offsets == << <<0, 1>>, <<0, -1>>, <<1, 0>>, <<-1, 0>> >>

\* SkipNeighbor without the exemption of the goal from the blocked check
SkipNeighborBlockedGoal(neighbor, goal, closed_set, other_robot_positions) ==
    \/ ~is_valid_position(neighbor[1], neighbor[2])
    \/ neighbor \in closed_set
    \/ is_blocked_position(neighbor[1], neighbor[2])
    \/ neighbor \in other_robot_positions
    \/ ~is_position_in_aisle(neighbor[1], neighbor[2]) /\ neighbor # goal

\* SkipNeighbor without the check for other robots
SkipNeighborNoRobots(neighbor, goal, closed_set, other_robot_positions) ==
    \/ ~is_valid_position(neighbor[1], neighbor[2])
    \/ neighbor \in closed_set
    \/ is_blocked_position(neighbor[1], neighbor[2]) /\ neighbor # goal
    \/ ~is_position_in_aisle(neighbor[1], neighbor[2]) /\ neighbor # goal

\* the five checks that make the planner skip a neighbor
SkipNeighbor(neighbor, goal, closed_set, other_robot_positions) ==
    \/ ~is_valid_position(neighbor[1], neighbor[2])
    \/ neighbor \in closed_set
    \/ is_blocked_position(neighbor[1], neighbor[2]) /\ neighbor # goal
    \/ neighbor \in other_robot_positions
    \/ ~is_position_in_aisle(neighbor[1], neighbor[2]) /\ neighbor # goal

\* the open set after a better path to neighbor was recorded with priority f
PushIfAbsent(open_set, f, neighbor) ==
    IF neighbor \in {e[2] : e \in open_set}
    THEN open_set
    ELSE open_set \cup {<<f, neighbor>>}

\* The search state st is a record of open_set, came_from and g_score
\* (f_score is only read back for the entry just written).  Each new search
\* state is bound by a quantifier over a singleton set, so that it is
\* evaluated once and not once per use.

\* the loop over the four neighbors of current, from the k-th offset on
RECURSIVE ExploreNeighbors(_, _, _, _, _, _)
ExploreNeighbors(k, current, goal, closed_set, other_robot_positions, st) ==
    IF k > Len(neighbor_offsets) THEN st
    ELSE
      LET neighbor == <<current[1] + neighbor_offsets[k][1],
                        current[2] + neighbor_offsets[k][2]>>
          congestion_cost ==
              get_congestion(neighbor[1], neighbor[2]) * congestion_penalty
          tentative_g_score == st.g_score[current] + 1 + congestion_cost
          better == \/ neighbor \notin DOMAIN st.g_score
                    \/ tentative_g_score < st.g_score[neighbor]
          updated ==
            IF SkipNeighbor(neighbor, goal, closed_set, other_robot_positions)
               \/ ~better
            THEN st
            ELSE [open_set |->
                     PushIfAbsent(st.open_set,
                         tentative_g_score + heuristic(neighbor, goal),
                         neighbor),
                  came_from |-> (neighbor :> current) @@ st.came_from,
                  g_score |-> (neighbor :> tentative_g_score) @@ st.g_score]
      IN  CHOOSE result \in
              {ExploreNeighbors(k + 1, current, goal, closed_set,
                                other_robot_positions, st2) :
                   st2 \in {updated}} : TRUE

\* the path from the goal back to the start, not reversed
RECURSIVE ReconstructPathUnreversed(_, _, _)
ReconstructPathUnreversed(current, came_from, start) ==
    IF current \in DOMAIN came_from
    THEN <<current>> \o
             ReconstructPathUnreversed(came_from[current], came_from, start)
    ELSE <<start>>

\* while current in came_from: path.append(current) ...; path.append(start);
\* return path[::-1]
RECURSIVE ReconstructPath(_, _, _)
ReconstructPath(current, came_from, start) ==
    IF current \in DOMAIN came_from
    THEN Append(ReconstructPath(came_from[current], came_from, start), current)
    ELSE <<start>>

\* while open_set: ...
RECURSIVE AStarLoop(_, _, _, _, _)
AStarLoop(st, closed_set, start, goal, other_robot_positions) ==
    IF st.open_set = {} THEN <<>>
    ELSE
      LET e == heappop(st.open_set)
          current == e[2]
      IN  IF current = goal
          THEN ReconstructPath(current, st.came_from, start)
          ELSE CHOOSE result \in
                 {AStarLoop(st2, closed2, start, goal, other_robot_positions) :
                    <<st2, closed2>> \in
                       {ExploreNeighbors(1, current, goal,
                            closed_set \cup {current}, other_robot_positions,
                            [st EXCEPT !.open_set = @ \ {e}])}
                       \X {closed_set \cup {current}}} : TRUE

\* a_star_search(warehouse, start, goal, robot_id, all_robot_positions)
a_star_search(start, goal, robot_id, all_robot_positions) ==
    AStarLoop([open_set |-> {<<0, start>>},
               came_from |-> <<>>,
               g_score |-> (start :> 0)],
              {}, start, goal,
              {all_robot_positions[rid] :
                   rid \in DOMAIN all_robot_positions \ {robot_id}})

\* ------------------------------------------------------------------------
\* robot.py
\* ------------------------------------------------------------------------
is_at_target(r) == current_position[r] = target_position[r]

\* check_collision without the loop over the other robots
check_collision_ignoring_robots(r, new_x, new_y) ==
    \/ ~is_valid_position(new_x, new_y)
    \/ is_blocked_position(new_x, new_y)
    \/ ~is_position_in_aisle(new_x, new_y)

check_collision(r, new_x, new_y) ==
    \/ ~is_valid_position(new_x, new_y)
    \/ \E o \in Robots : o # r /\ current_position[o] = <<new_x, new_y>>
    \/ is_blocked_position(new_x, new_y)
    \/ ~is_position_in_aisle(new_x, new_y)

Directions == {"up", "down", "left", "right"}

\* the cell a unit move from pos in the given direction leads to
Destination(pos, direction) ==
    CASE direction = "left"  -> <<pos[1] - 1, pos[2]>>
      [] direction = "right" -> <<pos[1] + 1, pos[2]>>
      [] direction = "up"    -> <<pos[1], pos[2] - 1>>
      [] direction = "down"  -> <<pos[1], pos[2] + 1>>

\* move_left, move_up and move_down call _consume_energy_for_move on
\* success; move_right does not
ConsumesEnergyForMove(direction) == direction # "right"

\* ------------------------------------------------------------------------
\* main.py: RobotController
\* ------------------------------------------------------------------------
\* the directions of a path with the vertical axis pointing upwards
RECURSIVE convert_path_with_y_upwards(_)
convert_path_with_y_upwards(p) ==
    IF Len(p) < 2 THEN <<>>
    ELSE LET dx == p[2][1] - p[1][1]
             dy == p[2][2] - p[1][2]
             first == IF dx = 1 THEN <<"right">>
                      ELSE IF dx = -1 THEN <<"left">>
                      ELSE IF dy = 1 THEN <<"up">>
                      ELSE IF dy = -1 THEN <<"down">>
                      ELSE <<>>
         IN  first \o convert_path_with_y_upwards(Tail(p))

RECURSIVE convert_path_to_directions(_)
convert_path_to_directions(p) ==
    IF Len(p) < 2 THEN <<>>
    ELSE LET dx == p[2][1] - p[1][1]
             dy == p[2][2] - p[1][2]
             first == IF dx = 1 THEN <<"right">>
                      ELSE IF dx = -1 THEN <<"left">>
                      ELSE IF dy = 1 THEN <<"down">>
                      ELSE IF dy = -1 THEN <<"up">>
                      ELSE <<>>
         IN  first \o convert_path_to_directions(Tail(p))

\* generate_path_commands without the clearing of the old commands
generate_path_commands_keeping(robot_id) ==
    LET found == a_star_search(current_position[robot_id],
                               target_position[robot_id], robot_id,
                               get_robot_positions)
    IN  robot_commands[robot_id] \o
            (IF Len(found) > 1 THEN convert_path_to_directions(found)
             ELSE <<>>)

\* the queue of robot_id after generate_path_commands(robot_id): the old
\* commands are cleared, and the directions of the new path are added when
\* the planner returned a path of more than one cell
generate_path_commands(robot_id) ==
    LET found == a_star_search(current_position[robot_id],
                               target_position[robot_id], robot_id,
                               get_robot_positions)
    IN  IF Len(found) > 1 THEN convert_path_to_directions(found) ELSE <<>>

AllAtTarget == \A r \in Robots : is_at_target(r)

\* main.py:214
TimedOut(steps, limit) == steps > limit

\* the step counter left as it is
StepCountKept(steps) == steps

\* main.py:126
NextStepCount(steps) == steps + 1

\* the move phase reading the queue without asking the planner
QueueNeverRefilled(r) == robot_commands[r]

\* main.py:137-139: the queue the move attempt of robot r reads
QueueAfterRefill(r) ==
    IF robot_commands[r] = <<>> /\ ~is_at_target(r)
    THEN generate_path_commands(r)
    ELSE robot_commands[r]

\* the robot put at the head of the list of robots to replan
MarkForReplanFirst(marked, r) ==
    IF r \in Range(marked) THEN marked ELSE <<r>> \o marked

\* main.py:174-175, 181-182
MarkForReplan(marked, r) ==
    IF r \in Range(marked) THEN marked ELSE Append(marked, r)

\* the penalty taken as the whole congestion level
PenaltyOfLevel(congestion_level) == 1 * congestion_level

\* the penalty with its sign reversed
PenaltyBelowLevel(congestion_level) == 1 * (1 - congestion_level)

\* main.py:169
Penalty(congestion_level) == 1 * (congestion_level - 1)

\* the value execute_one_step returns, with the reason for a False
StepResult ==
    IF robots_with_commands = 0 /\ AllAtTarget THEN "completed"
    ELSE IF movements_made = 0 /\ robots_with_commands > 0
            /\ robots_to_replan = <<>> THEN "gridlock"
    ELSE "continue"

\* execute_all_steps, main.py:204-210
ExecuteAllStepsBegin ==
    /\ pc = "start"
    /\ congestion_map' = reset_congestion
    /\ robot_commands' =
          [r \in Robots |->
              IF ~is_at_target(r) THEN generate_path_commands(r)
              ELSE robot_commands[r]]
    /\ pc' = "loop"
    /\ UNCHANGED <<width, height, aisles, entry_docks, packing_stations,
                   active_robots, blocked_positions, robotVars, step_count, max_steps,
                   movements_made, robots_with_commands, robots_to_replan,
                   idx, replan_idx, outcome, path, search,
                   optimizerVars>>

\* main.py:213: the loop condition is false
LoopExit ==
    /\ pc = "loop"
    /\ AllAtTarget
    /\ pc' = "done"
    /\ outcome' = "success"
    /\ UNCHANGED <<warehouseVars, robotVars, robot_commands, step_count,
                   max_steps, movements_made, robots_with_commands,
                   robots_to_replan, idx, replan_idx, path, search,
                   optimizerVars>>

\* main.py:214-216
LoopTimeout ==
    /\ pc = "loop"
    /\ ~AllAtTarget
    /\ TimedOut(step_count, max_steps)
    /\ pc' = "done"
    /\ outcome' = "timeout"
    /\ UNCHANGED <<warehouseVars, robotVars, robot_commands, step_count,
                   max_steps, movements_made, robots_with_commands,
                   robots_to_replan, idx, replan_idx, path, search,
                   optimizerVars>>

\* main.py:217 and 126-132: execute_one_step is entered
StepBegin ==
    /\ pc = "loop"
    /\ ~AllAtTarget
    /\ ~TimedOut(step_count, max_steps)
    /\ step_count' = NextStepCount(step_count)
    /\ movements_made' = 0
    /\ robots_with_commands' = 0
    /\ robots_to_replan' = <<>>
    /\ idx' = 1
    /\ pc' = "turn"
    /\ UNCHANGED <<warehouseVars, robotVars, robot_commands, max_steps,
                   replan_idx, outcome, path, search,
                   optimizerVars>>

\* the move phase staying with the robot at index i
AfterTurnSameRobot(i) ==
    idx' = i /\ pc' = "turn" /\ replan_idx' = replan_idx

\* where the move phase continues after the robot at index i
AfterTurn(i) ==
    IF i < Len(active_robots)
    THEN idx' = i + 1 /\ pc' = "turn" /\ replan_idx' = replan_idx
    ELSE idx' = i + 1 /\ pc' = "replan" /\ replan_idx' = 1

\* the loop over the active robots never reaches a robot
NoRobotInTurn == {}

\* the robots of the warehouse taken in any order
RobotsInAnyOrder == Robots

\* main.py:134: the loop over the list of active robots has reached the
\* robot at index idx
RobotsInTurn == {active_robots[idx]}

\* main.py:134-156 and 179-182: one iteration of the move phase, up to the
\* outcome of the move primitive
RobotTurn ==
    /\ pc = "turn"
    /\ \E r \in RobotsInTurn :
       \E queue \in {QueueAfterRefill(r)} :
         /\ robot_commands' = [robot_commands EXCEPT ![r] = queue]
         /\ IF queue = <<>>
            THEN /\ AfterTurn(idx)
                 /\ UNCHANGED <<robotVars, robots_with_commands,
                                robots_to_replan>>
            ELSE LET direction == Head(queue)
                     dest == Destination(current_position[r], direction)
                 IN
                 /\ robots_with_commands' = robots_with_commands + 1
                 /\ IF direction \in Directions
                       /\ ~check_collision(r, dest[1], dest[2])
                    THEN \* the move primitive returned True
                         /\ current_position' =
                               [current_position EXCEPT ![r] = dest]
                         /\ movement_history' =
                               [movement_history EXCEPT
                                   ![r] = Append(@, dest)]
                         /\ total_energy_spent' =
                               [total_energy_spent EXCEPT ![r] =
                                   IF ConsumesEnergyForMove(direction)
                                   THEN @ + energy_per_move ELSE @]
                         /\ successful_moves' =
                               [successful_moves EXCEPT ![r] =
                                   IF ConsumesEnergyForMove(direction)
                                   THEN @ + 1 ELSE @]
                         /\ pc' = "account"
                         /\ UNCHANGED <<target_position, blocked_attempts,
                                        total_congestion_penalty,
                                        robots_to_replan, idx, replan_idx>>
                    ELSE \* the move primitive returned False
                         /\ total_energy_spent' =
                               [total_energy_spent EXCEPT
                                   ![r] = @ + energy_per_blocked_attempt]
                         /\ blocked_attempts' =
                               [blocked_attempts EXCEPT ![r] = @ + 1]
                         /\ robots_to_replan' =
                               MarkForReplan(robots_to_replan, r)
                         /\ AfterTurn(idx)
                         /\ UNCHANGED <<current_position, target_position,
                                        movement_history, successful_moves,
                                        total_congestion_penalty>>
    /\ UNCHANGED <<warehouseVars, step_count, max_steps, movements_made,
                   outcome, path, search,
                   optimizerVars>>

\* the queue left as it is after a successful move
QueueAfterMoveKept(queue) == queue

\* main.py:159: a successful move removes the command it executed
QueueAfterMove(queue) == Tail(queue)

\* main.py:158-178: the bookkeeping after a successful move
AccountMove ==
    /\ pc = "account"
    /\ LET r == active_robots[idx]
           new_pos == current_position[r]
           recorded == record_congestion(new_pos[1], new_pos[2])
           congestion_level == recorded[new_pos]
       IN  /\ robot_commands' =
                 [robot_commands EXCEPT ![r] = QueueAfterMove(@)]
           /\ congestion_map' = recorded
           /\ IF congestion_level > 1
              THEN /\ total_congestion_penalty' =
                         [total_congestion_penalty EXCEPT
                             ![r] = @ + Penalty(congestion_level)]
                   /\ total_energy_spent' =
                         [total_energy_spent EXCEPT
                             ![r] = @ + 2 * Penalty(congestion_level)]
                   /\ robots_to_replan' = MarkForReplan(robots_to_replan, r)
              ELSE UNCHANGED <<total_congestion_penalty, total_energy_spent,
                               robots_to_replan>>
           /\ movements_made' = movements_made + 1
           /\ AfterTurn(idx)
    /\ UNCHANGED <<width, height, aisles, entry_docks, packing_stations,
                   active_robots, blocked_positions, current_position, target_position,
                   movement_history, successful_moves, blocked_attempts,
                   step_count, max_steps, robots_with_commands, outcome,
                   path, search,
                   optimizerVars>>

\* main.py:185-187: the next marked robot is replanned
Replan ==
    /\ pc = "replan"
    /\ replan_idx <= Len(robots_to_replan)
    /\ robot_commands' =
          [robot_commands EXCEPT ![robots_to_replan[replan_idx]] =
              generate_path_commands(robots_to_replan[replan_idx])]
    /\ replan_idx' = replan_idx + 1
    /\ UNCHANGED <<warehouseVars, robotVars, step_count, max_steps,
                   movements_made, robots_with_commands, robots_to_replan,
                   idx, pc, outcome, path, search,
                   optimizerVars>>

\* main.py:189-197 and 217-218: execute_one_step returns; on False
\* execute_all_steps leaves its loop
StepEnd ==
    /\ pc = "replan"
    /\ replan_idx > Len(robots_to_replan)
    /\ IF StepResult = "continue"
       THEN pc' = "loop" /\ outcome' = outcome
       ELSE pc' = "done" /\ outcome' = StepResult
    /\ UNCHANGED <<warehouseVars, robotVars, robot_commands, step_count,
                   max_steps, movements_made, robots_with_commands,
                   robots_to_replan, idx, replan_idx, path, search,
                   optimizerVars>>

\* ------------------------------------------------------------------------
\* optimization.py: costs, domination and the archive
\* ------------------------------------------------------------------------
\* the keys of a metrics dict, in the order in which evaluate_layout
\* inserts them and dominates iterates over them
MetricKeys == <<"total_distance", "total_energy", "max_congestion">>

\* total_energy is counted in units of 0.5
Metrics == [total_distance : 0..MaxMetric, total_energy : 0..MaxMetric,
            max_congestion : 0..MaxMetric]

\* the metrics of a run in which nothing moved
ZeroMetrics ==
    [total_distance |-> 0, total_energy |-> 0, max_congestion |-> 0]

\* the weights of benchmark.py (0.5, 0.3, 0.2) and a distance-only
\* weighting, in units of 0.1
WeightSets == {[w_d |-> 5, w_c |-> 3, w_e |-> 2],
               [w_d |-> 10, w_c |-> 0, w_e |-> 0]}

\* calculate_cost, in units of 0.05
calculate_cost(of_metrics, with_weights) ==
    with_weights.w_d * 2 * of_metrics.total_distance
    + with_weights.w_c * 2 * of_metrics.max_congestion
    + with_weights.w_e * of_metrics.total_energy

\* the loop of dominates from the k-th key on
RECURSIVE DominatesFrom(_, _, _, _)
DominatesFrom(k, metrics_a, metrics_b, a_better) ==
    IF k > Len(MetricKeys) THEN a_better
    ELSE IF metrics_a[MetricKeys[k]] > metrics_b[MetricKeys[k]] THEN FALSE
    ELSE DominatesFrom(k + 1, metrics_a, metrics_b,
             a_better \/ metrics_a[MetricKeys[k]] < metrics_b[MetricKeys[k]])

\* dominates with a_better set at the start
dominates_or_equals(metrics_a, metrics_b) ==
    DominatesFrom(1, metrics_a, metrics_b, TRUE)

dominates(metrics_a, metrics_b) ==
    DominatesFrom(1, metrics_a, metrics_b, FALSE)

\* the loop of update_archive from the k-th archived entry on: the value
\* returned once the loop is left by its end or by the break
RECURSIVE UpdateArchiveFrom(_, _, _, _)
UpdateArchiveFrom(k, archive_in, new_solution_metrics, new_archive) ==
    IF k > Len(archive_in) THEN Append(new_archive, new_solution_metrics)
    ELSE IF dominates(new_solution_metrics, archive_in[k])
    THEN UpdateArchiveFrom(k + 1, archive_in, new_solution_metrics,
                           new_archive)
    ELSE IF dominates(archive_in[k], new_solution_metrics)
    THEN new_archive
    ELSE UpdateArchiveFrom(k + 1, archive_in, new_solution_metrics,
                           Append(new_archive, archive_in[k]))

\* update_archive that keeps every entry and adds the new one
update_archive_appending(archive_in, new_solution_metrics) ==
    Append(archive_in, new_solution_metrics)

update_archive(archive_in, new_solution_metrics) ==
    UpdateArchiveFrom(1, archive_in, new_solution_metrics, <<>>)

\* optimization.py:156: the outcomes of the acceptance test.  A cheaper
\* neighbor is accepted; for an equal cost the draw from [0, 1) is below
\* exp(0) = 1; for a dearer neighbor the draw decides
AcceptanceOutcomes(cost_diff) ==
    IF cost_diff <= 0 THEN {TRUE} ELSE BOOLEAN

\* best_cost following current_cost
BestIsCurrent(current, best) == current

\* optimization.py:161-163: best_cost after the iteration
BestAfter(current, best) == IF current < best THEN current ELSE best

\* ------------------------------------------------------------------------
\* optimization.py: get_neighbor_layout
\* ------------------------------------------------------------------------
\* optimization.py:92-93
infrastructure_cells == Range(entry_docks) \cup Range(packing_stations)

\* storage_cells without the infrastructure filter
storage_cells_unfiltered == blocked_positions

\* optimization.py:95: the cells of the list storage_cells
storage_cells == blocked_positions \ infrastructure_cells

\* aisle_cells without the infrastructure filter
aisle_cells_unfiltered == UNION {Range(aisles[a]) : a \in DOMAIN aisles}

\* optimization.py:98-102: the cells of the list aisle_cells
aisle_cells == aisle_cells_unfiltered \ infrastructure_cells

\* list.remove: the list without the first occurrence of cell
RECURSIVE ListRemove(_, _)
ListRemove(positions, cell) ==
    IF positions = <<>> THEN <<>>
    ELSE IF Head(positions) = cell THEN Tail(positions)
    ELSE <<Head(positions)>> \o ListRemove(Tail(positions), cell)

\* optimization.py:118-128: the aisles after the swap, from the k-th aisle
\* on: the first aisle that holds the old aisle cell loses it and gains
\* the old storage cell; if no aisle holds it, the first aisle gains the cell
RECURSIVE SwapInAisles(_, _, _, _)
SwapInAisles(k, all_aisles, aisle_cell, storage_cell) ==
    IF k > Len(all_aisles)
    THEN IF all_aisles # <<>>
         THEN [all_aisles EXCEPT ![1] = Append(@, storage_cell)]
         ELSE all_aisles
    ELSE IF aisle_cell \in Range(all_aisles[k])
    THEN [all_aisles EXCEPT
             ![k] = Append(ListRemove(@, aisle_cell), storage_cell)]
    ELSE SwapInAisles(k + 1, all_aisles, aisle_cell, storage_cell)

\* evaluate_layout is not running
EvaluationIdle ==
    /\ num_robots = 0
    /\ metrics = ZeroMetrics
    /\ at_call = <<>>

\* get_neighbor_layout has not been called
NeighborIdle ==
    /\ storage_to_become_aisle = <<>>
    /\ aisle_to_become_storage = <<>>
    /\ layouts = <<>>
    /\ layout_id = 0

\* simulated_annealing_optimizer is not running
AnnealingIdle ==
    /\ weights = <<>>
    /\ current_cost = 0
    /\ best_cost = 0
    /\ evaluated = {}

\* mosa_optimizer is not running
ArchiveIdle ==
    /\ archive = <<>>
    /\ submitted = {}

\* no optimizer loop is running
LoopIdle ==
    /\ iters = 0
    /\ iteration = 0
    /\ current_solution = 0
    /\ current_metrics = ZeroMetrics
    /\ neighbor_metrics = ZeroMetrics

\* dominates is not being compared
DominatesIdle ==
    /\ tuple_a = ZeroMetrics
    /\ tuple_b = ZeroMetrics
    /\ tuple_c = ZeroMetrics
    /\ verdict = <<>>

\* nothing of optimization.py is running
OptimizerIdle ==
    /\ EvaluationIdle
    /\ NeighborIdle
    /\ AnnealingIdle
    /\ ArchiveIdle
    /\ LoopIdle
    /\ DominatesIdle

\* ------------------------------------------------------------------------
\* Warehouse construction
\* ------------------------------------------------------------------------
\* the positions list of the aisle that add_aisle appends
add_aisle(start_x, start_y, end_x, end_y) ==
    LET Min(a, b) == IF a < b THEN a ELSE b
        Max(a, b) == IF a < b THEN b ELSE a
    IN  IF start_x = end_x
        THEN [i \in 1..(Max(start_y, end_y) - Min(start_y, end_y) + 1) |->
                 <<start_x, Min(start_y, end_y) + i - 1>>]
        ELSE IF start_y = end_y
        THEN [i \in 1..(Max(start_x, end_x) - Min(start_x, end_x) + 1) |->
                 <<Min(start_x, end_x) + i - 1, start_y>>]
        ELSE [i \in 1..(end_y - start_y + 1) |-> <<start_x, start_y + i - 1>>]
             \o [i \in 1..(end_x - start_x) |-> <<start_x + i, end_y>>]

\* the blocked set after the add_entry_dock calls for the docks and the
\* add_blocked_position calls for the storage cells: add_entry_dock puts the
\* dock into the blocked set, add_packing_station does not
BlockedAfterConstruction(docks, storage) == storage \cup Range(docks)

\* a warehouse with a corridor, a dock and a station at its ends and one
\* storage cell
DockLayout ==
    [width |-> 3, height |-> 2,
     aisles |-> <<add_aisle(0, 0, 2, 0)>>,
     entry_docks |-> << <<0, 1>> >>,
     packing_stations |-> << <<2, 1>> >>,
     storage |-> {<<1, 1>>}]

\* a warehouse of two parallel aisles
OpenLayout ==
    [width |-> 3, height |-> 2,
     aisles |-> <<add_aisle(0, 0, 2, 0), add_aisle(0, 1, 2, 1)>>,
     entry_docks |-> <<>>,
     packing_stations |-> <<>>,
     storage |-> {}]

\* a corridor with a station, an aisle cell turned into storage and a cell
\* that is neither aisle nor storage
SwappedLayout ==
    [width |-> 3, height |-> 2,
     aisles |-> <<add_aisle(0, 0, 2, 0), add_aisle(1, 1, 1, 1)>>,
     entry_docks |-> <<>>,
     packing_stations |-> << <<2, 1>> >>,
     storage |-> {<<1, 1>>}]

EngineLayouts == {DockLayout, OpenLayout, SwappedLayout}

\* the planner's warehouses: two parallel aisles of four cells, and a
\* corridor with a dock, a storage cell and a cell outside every aisle
WideLayout ==
    [width |-> 4, height |-> 2,
     aisles |-> <<add_aisle(0, 0, 3, 0), add_aisle(0, 1, 3, 1)>>,
     entry_docks |-> <<>>,
     packing_stations |-> <<>>,
     storage |-> {}]

ObstacleLayout ==
    [width |-> 4, height |-> 2,
     aisles |-> <<add_aisle(0, 0, 3, 0), add_aisle(0, 1, 1, 1)>>,
     entry_docks |-> << <<3, 1>> >>,
     packing_stations |-> <<>>,
     storage |-> {<<1, 1>>}]

\* the cells of layout l on which a robot can stand at the start of a run
StartCells(l) ==
    {c \in GridCells(l.width, l.height) :
        \/ \E i \in DOMAIN l.aisles : c \in Range(l.aisles[i])
        \/ c \in Range(l.entry_docks) \cup Range(l.packing_stations)}

\* congestion maps over the cells with at most two visited cells
CongestionMaps(cells, maxCount) ==
    {[c \in cells |-> IF c = a THEN m ELSE IF c = b THEN n ELSE 0] :
        <<a, b, m, n>> \in cells \X cells \X (0..maxCount) \X (0..maxCount)}

\* the warehouse part of the state for layout l, congestion map cm and the
\* robots of fleet
WarehouseIs(l, cm, fleet) ==
    /\ active_robots = fleet
    /\ width = l.width
    /\ height = l.height
    /\ aisles = l.aisles
    /\ entry_docks = l.entry_docks
    /\ packing_stations = l.packing_stations
    /\ blocked_positions = BlockedAfterConstruction(l.entry_docks, l.storage)
    /\ congestion_map = cm

\* Robot.__init__ for every robot, then set_target_position
RobotsAre(starts, targets) ==
    /\ current_position = starts
    /\ target_position = targets
    /\ movement_history = [r \in DOMAIN starts |-> <<starts[r]>>]
    /\ total_energy_spent = [r \in DOMAIN starts |-> 0]
    /\ successful_moves = [r \in DOMAIN starts |-> 0]
    /\ blocked_attempts = [r \in DOMAIN starts |-> 0]
    /\ total_congestion_penalty = [r \in DOMAIN starts |-> 0]

\* RobotController.__init__ and the call execute_all_steps(limit)
ControllerIs(fleet, limit, at) ==
    /\ robot_commands = [r \in Range(fleet) |-> <<>>]
    /\ step_count = 0
    /\ max_steps = limit
    /\ movements_made = 0
    /\ robots_with_commands = 0
    /\ robots_to_replan = <<>>
    /\ idx = 1
    /\ replan_idx = 1
    /\ pc = at
    /\ outcome = "running"

\* the fleets: the first robot alone, or both robots
Fleets == {SubSeq(RobotIds, 1, n) : n \in 1..Len(RobotIds)}

\* a warehouse with its robots on distinct cells, a fresh controller, and
\* execute_all_steps about to run; the congestion map may hold the counts
\* of an earlier run
Init ==
    \E l \in EngineLayouts, fleet \in Fleets :
      \E starts \in [Range(fleet) -> StartCells(l)] :
        \E targets \in [Range(fleet) -> GridCells(l.width, l.height)] :
          \E limit \in 1..MaxSteps :
            \E stale \in 0..1 :
              /\ \A r1, r2 \in Range(fleet) :
                    r1 # r2 => starts[r1] # starts[r2]
              /\ WarehouseIs(l, [c \in GridCells(l.width, l.height) |->
                                   IF c = <<0, 0>> THEN stale ELSE 0], fleet)
              /\ RobotsAre(starts, targets)
              /\ ControllerIs(fleet, limit, "start")
              /\ path = <<>>
              /\ search = <<>>
              /\ OptimizerIdle

Next ==
    \/ ExecuteAllStepsBegin
    \/ LoopExit
    \/ LoopTimeout
    \/ StepBegin
    \/ RobotTurn
    \/ AccountMove
    \/ Replan
    \/ StepEnd

Spec == Init /\ [][Next]_vars

\* the scheduling of a single-threaded program: it takes its next step
FairSpec == Spec /\ WF_vars(Next)

\* ------------------------------------------------------------------------
\* a_star_search on its own
\* ------------------------------------------------------------------------
\* pathfinding.py:9-111, called as in main.py:32-39 for ROBOT_000
Search ==
    /\ pc = "search"
    /\ path' = a_star_search(current_position["ROBOT_000"],
                             target_position["ROBOT_000"], "ROBOT_000",
                             get_robot_positions)
    /\ pc' = "searched"
    /\ UNCHANGED <<warehouseVars, robotVars, robot_commands, step_count,
                   max_steps, movements_made, robots_with_commands,
                   robots_to_replan, idx, replan_idx, outcome, search,
                   optimizerVars>>

\* the inputs of the planner: a layout, the congestion left by earlier
\* moves, a start, a goal and the cell of the other robot
PlannerInit ==
    \E l \in {WideLayout, ObstacleLayout}, fleet \in Fleets :
      \E cm \in CongestionMaps(GridCells(l.width, l.height), MaxCongestion) :
        \E starts, targets \in [Range(fleet) -> GridCells(l.width, l.height)] :
          /\ \A r1, r2 \in Range(fleet) : r1 # r2 => starts[r1] # starts[r2]
          /\ \A r \in Range(fleet) \ {"ROBOT_000"} : targets[r] = starts[r]
          /\ WarehouseIs(l, cm, fleet)
          /\ RobotsAre(starts, targets)
          /\ ControllerIs(fleet, 1, "search")
          /\ path = <<>>
          /\ search = <<>>
          /\ OptimizerIdle

PlannerNext == Search

PlannerSpec == PlannerInit /\ [][PlannerNext]_vars

\* ------------------------------------------------------------------------
\* The optimizers on their own
\* ------------------------------------------------------------------------
\* a warehouse without robots, for the runs in which only metrics matter
EngineIdle(at) ==
    /\ WarehouseIs(OpenLayout, [c \in GridCells(3, 2) |-> 0], <<>>)
    /\ RobotsAre(<<>>, <<>>)
    /\ ControllerIs(<<>>, default_max_steps, at)
    /\ path = <<>>
    /\ search = <<>>

\* the acceptance test left to the random draw in every case
MosaAcceptanceByDraw(neighbor, current) == BOOLEAN

\* optimization.py:234-251: the outcomes of the acceptance test of
\* mosa_optimizer.  A dominating neighbor is accepted; otherwise a random
\* draw decides
MosaAcceptanceOutcomes(neighbor, current) ==
    IF dominates(neighbor, current) THEN {TRUE} ELSE BOOLEAN

\* mosa_optimizer, optimization.py:219-225: any metrics can be those of the
\* initial layout
MosaInit ==
    \E m \in Metrics, n \in 0..MaxIters :
        /\ EngineIdle("mosa")
        /\ EvaluationIdle
        /\ NeighborIdle
        /\ AnnealingIdle
        /\ DominatesIdle
        /\ iters = n
        /\ iteration = 0
        /\ current_solution = 0
        /\ current_metrics = m
        /\ neighbor_metrics = ZeroMetrics
        /\ archive = <<m>>
        /\ submitted = {m}

\* optimization.py:227-259: one iteration of mosa_optimizer; any metrics
\* can be those of the neighbor
MosaIteration ==
    /\ pc = "mosa"
    /\ iteration < iters
    /\ \E m \in Metrics :
         /\ neighbor_metrics' = m
         /\ \E accepted \in MosaAcceptanceOutcomes(m, current_metrics) :
               /\ current_solution' =
                     IF accepted THEN iteration + 1 ELSE current_solution
               /\ current_metrics' =
                     IF accepted THEN m ELSE current_metrics
         /\ archive' = update_archive(archive, m)
         /\ submitted' = submitted \cup {m}
    /\ iteration' = iteration + 1
    /\ UNCHANGED <<warehouseVars, robotVars, controllerVars, path, search,
                   evaluationVars, neighborVars, annealingVars,
                   dominatesVars, iters>>

\* optimization.py:263-264
MosaReturn ==
    /\ pc = "mosa"
    /\ iteration = iters
    /\ pc' = "returned"
    /\ UNCHANGED <<warehouseVars, robotVars, robot_commands, step_count,
                   max_steps, movements_made, robots_with_commands,
                   robots_to_replan, idx, replan_idx, outcome, path, search,
                   optimizerVars>>

MosaNext == MosaIteration \/ MosaReturn

MosaSpec == MosaInit /\ [][MosaNext]_vars

\* a warehouse with connector aisles through its dock and its station, as
\* in create_sample_warehouse, and two storage cells
ConnectorLayout ==
    [width |-> 3, height |-> 2,
     aisles |-> <<add_aisle(0, 0, 2, 0), add_aisle(0, 0, 0, 1)>>,
     entry_docks |-> << <<0, 1>> >>,
     packing_stations |-> << <<2, 0>> >>,
     storage |-> {<<1, 1>>, <<2, 1>>}]

\* a corridor with a dock and a station and no storage
InfrastructureOnlyLayout ==
    [width |-> 3, height |-> 2,
     aisles |-> <<add_aisle(0, 0, 2, 0)>>,
     entry_docks |-> << <<0, 1>> >>,
     packing_stations |-> << <<2, 1>> >>,
     storage |-> {}]

\* a warehouse whose only aisle cell is a station
StationAisleLayout ==
    [width |-> 3, height |-> 2,
     aisles |-> <<add_aisle(2, 0, 2, 0)>>,
     entry_docks |-> <<>>,
     packing_stations |-> << <<2, 0>> >>,
     storage |-> {<<1, 1>>}]

NeighborLayouts ==
    {DockLayout, SwappedLayout, OpenLayout, ConnectorLayout,
     InfrastructureOnlyLayout, StationAisleLayout}

\* a layout handed to get_neighbor_layout, and the length of the chain of
\* calls in which each call is given the layout the call before returned
NeighborInit ==
    \E l \in NeighborLayouts, n \in 1..MaxChain :
        /\ WarehouseIs(l, [c \in GridCells(l.width, l.height) |-> 0], <<>>)
        /\ RobotsAre(<<>>, <<>>)
        /\ ControllerIs(<<>>, default_max_steps, "neighbor")
        /\ path = <<>>
        /\ search = <<>>
        /\ EvaluationIdle
        /\ NeighborIdle
        /\ AnnealingIdle
        /\ ArchiveIdle
        /\ DominatesIdle
        /\ iters = n
        /\ iteration = 0
        /\ current_solution = 0
        /\ current_metrics = ZeroMetrics
        /\ neighbor_metrics = ZeroMetrics

\* the Warehouse object that the warehouse and robot variables describe,
\* with its Robot objects
ThisLayout ==
    [width |-> width, height |-> height, aisles |-> aisles,
     entry_docks |-> entry_docks, packing_stations |-> packing_stations,
     active_robots |-> active_robots,
     blocked_positions |-> blocked_positions,
     congestion_map |-> congestion_map,
     current_position |-> current_position,
     target_position |-> target_position,
     movement_history |-> movement_history,
     total_energy_spent |-> total_energy_spent,
     successful_moves |-> successful_moves,
     blocked_attempts |-> blocked_attempts,
     total_congestion_penalty |-> total_congestion_penalty]

\* the Warehouse object with the given id
ObjectOf(id) == IF id = layout_id THEN ThisLayout ELSE layouts[id]

\* a copy that is the original object itself
copy_by_reference(original) == original

\* copy.deepcopy, optimization.py:88: a new object, which shares nothing
\* with the original; the objects are numbered by the iteration that makes
\* them
deepcopy(original) == iteration + 1

\* optimization.py:88-130: the layout of the returned deep copy
SwapCells ==
    IF storage_cells = {} \/ aisle_cells = {}
    THEN /\ storage_to_become_aisle' = <<>>
         /\ aisle_to_become_storage' = <<>>
         /\ UNCHANGED <<blocked_positions, aisles>>
    ELSE \E storage_cell \in storage_cells, aisle_cell \in aisle_cells :
         /\ storage_to_become_aisle' = storage_cell
         /\ aisle_to_become_storage' = aisle_cell
         /\ blocked_positions' =
               (blocked_positions \ {storage_cell}) \cup {aisle_cell}
         /\ aisles' = SwapInAisles(1, aisles, aisle_cell, storage_cell)

\* optimization.py:82-130: the warehouse variables become those of the
\* returned deep copy, and the layout that was handed in is kept among the
\* layouts
GetNeighborLayout ==
    /\ pc = "neighbor"
    /\ iteration < iters
    /\ layouts' = [id \in DOMAIN layouts \cup {layout_id} |-> ObjectOf(id)]
    /\ layout_id' = deepcopy(layout_id)
    /\ SwapCells
    /\ iteration' = iteration + 1
    /\ UNCHANGED <<width, height, entry_docks, packing_stations,
                   active_robots, congestion_map, robotVars, controllerVars,
                   path, search, evaluationVars, annealingVars, archiveVars,
                   dominatesVars, iters, current_solution, current_metrics,
                   neighbor_metrics>>

NeighborNext == GetNeighborLayout

NeighborSpec == NeighborInit /\ [][NeighborNext]_vars

\* ------------------------------------------------------------------------
\* evaluate_layout and the simulation it runs
\* ------------------------------------------------------------------------
\* random.shuffle: the orders in which the positions can come out
Shuffles(positions) ==
    {p \in [DOMAIN positions -> Range(positions)] :
        \A j, k \in DOMAIN positions : p[j] = p[k] => positions[j] = positions[k]}

\* optimization.py:42-45: the number of robots created before the loop ends
\* or breaks
RobotsCreated(wanted, docks, stations) ==
    LET Min(a, b) == IF a < b THEN a ELSE b
    IN  Min(wanted, Min(Len(docks), Len(stations)))

\* list.pop() in the round for robot number k (from 1): the k-th position
\* from the end
PopFor(k, positions) == positions[Len(positions) - k + 1]

\* the sum of counter over the robots of fleet
RECURSIVE SumOver(_, _)
SumOver(counter, fleet) ==
    IF fleet = <<>> THEN 0
    ELSE counter[Head(fleet)] + SumOver(counter, Tail(fleet))

\* max(warehouse.congestion_map.values()) if warehouse.congestion_map else 0
MaxCongestionOf(cm) ==
    IF DOMAIN cm = {} THEN 0
    ELSE CHOOSE m \in Range(cm) : \A n \in Range(cm) : n <= m

\* a warehouse with two docks and two stations along a corridor
TwoDockLayout ==
    [width |-> 4, height |-> 2,
     aisles |-> <<add_aisle(0, 0, 3, 0)>>,
     entry_docks |-> << <<0, 1>>, <<1, 1>> >>,
     packing_stations |-> << <<2, 1>>, <<3, 1>> >>,
     storage |-> {}]

EvaluationLayouts == {DockLayout, ConnectorLayout, TwoDockLayout}

\* an optimizer is about to evaluate its initial layout for wanted robots;
\* the warehouse has no robots yet, and its congestion map may hold the
\* counts of an earlier run
EvaluationInit ==
    \E l \in EvaluationLayouts, wanted \in 0..MaxNumRobots,
       n \in 0..MaxIters, stale \in 0..1 :
        /\ WarehouseIs(l, [c \in GridCells(l.width, l.height) |->
                              IF c = <<0, 0>> THEN stale ELSE 0], <<>>)
        /\ RobotsAre(<<>>, <<>>)
        /\ ControllerIs(<<>>, default_max_steps, "evaluate")
        /\ path = <<>>
        /\ search = <<>>
        /\ NeighborIdle
        /\ AnnealingIdle
        /\ ArchiveIdle
        /\ DominatesIdle
        /\ iters = n
        /\ iteration = 0
        /\ current_solution = 0
        /\ current_metrics = ZeroMetrics
        /\ neighbor_metrics = ZeroMetrics
        /\ num_robots = wanted
        /\ metrics = ZeroMetrics
        /\ at_call = <<>>

\* optimization.py:27-50: the warehouse is cleaned and the robots are
\* created on shuffled docks with shuffled stations as targets
EvaluateLayout ==
    /\ pc = "evaluate"
    /\ at_call' = [active_robots |-> active_robots,
                   congestion_map |-> congestion_map]
    /\ congestion_map' = reset_congestion
    /\ \E dock_positions \in Shuffles(entry_docks),
          station_positions \in Shuffles(packing_stations) :
         LET created == RobotsCreated(num_robots, dock_positions,
                                      station_positions)
             fleet == SubSeq(RobotIds, 1, created)
             start_pos == [r \in Range(fleet) |->
                 PopFor(CHOOSE k \in 1..created : fleet[k] = r,
                        dock_positions)]
             target_pos == [r \in Range(fleet) |->
                 PopFor(CHOOSE k \in 1..created : fleet[k] = r,
                        station_positions)]
         IN  /\ active_robots' = fleet
             /\ current_position' = start_pos
             /\ target_position' = target_pos
             /\ movement_history' = [r \in Range(fleet) |-> <<start_pos[r]>>]
             /\ total_energy_spent' = [r \in Range(fleet) |-> 0]
             /\ successful_moves' = [r \in Range(fleet) |-> 0]
             /\ blocked_attempts' = [r \in Range(fleet) |-> 0]
             /\ total_congestion_penalty' = [r \in Range(fleet) |-> 0]
    /\ pc' = "simulate"
    /\ UNCHANGED <<width, height, aisles, entry_docks, packing_stations,
                   blocked_positions, robot_commands, step_count, max_steps,
                   movements_made, robots_with_commands, robots_to_replan,
                   idx, replan_idx, outcome, path, search, num_robots, metrics,
                   neighborVars, loopVars, annealingVars, archiveVars,
                   dominatesVars>>

\* simulate_robot_movement_with_astar, main.py:416-429: a new controller,
\* a path for every robot, and the call execute_all_steps()
Simulate ==
    /\ pc = "simulate"
    /\ robot_commands' = [r \in Robots |-> generate_path_commands(r)]
    /\ step_count' = 0
    /\ max_steps' = default_max_steps
    /\ movements_made' = 0
    /\ robots_with_commands' = 0
    /\ robots_to_replan' = <<>>
    /\ idx' = 1
    /\ replan_idx' = 1
    /\ outcome' = "running"
    /\ pc' = "start"
    /\ UNCHANGED <<warehouseVars, robotVars, path, search,
                   optimizerVars>>

\* optimization.py:55-71: the metrics are collected and returned
CollectMetrics ==
    /\ pc = "done"
    /\ metrics' =
          [total_distance |-> SumOver(successful_moves, active_robots),
           total_energy |-> SumOver(total_energy_spent, active_robots),
           max_congestion |-> MaxCongestionOf(congestion_map)]
    /\ pc' = "returned"
    /\ UNCHANGED <<warehouseVars, robotVars, robot_commands, step_count,
                   max_steps, movements_made, robots_with_commands,
                   robots_to_replan, idx, replan_idx, outcome, path, search,
                   num_robots, at_call, neighborVars, loopVars,
                   annealingVars, archiveVars, dominatesVars>>

\* optimization.py:149-150 and 229-230: the optimizer derives a neighbor
\* from the layout it has evaluated, a deep copy with the robots and the
\* congestion map of that layout, and is about to evaluate it
DeriveNeighbor ==
    /\ pc = "returned"
    /\ iteration < iters
    /\ SwapCells
    /\ iteration' = iteration + 1
    /\ pc' = "evaluate"
    /\ UNCHANGED <<width, height, entry_docks, packing_stations,
                   active_robots, congestion_map, robotVars, robot_commands,
                   step_count, max_steps, movements_made,
                   robots_with_commands, robots_to_replan, idx, replan_idx,
                   outcome, path, search, evaluationVars, annealingVars,
                   archiveVars,
                   dominatesVars, iters, current_solution, current_metrics,
                   neighbor_metrics, layouts, layout_id>>

EvaluationNext ==
    \/ EvaluateLayout
    \/ Simulate
    \/ ExecuteAllStepsBegin
    \/ LoopExit
    \/ LoopTimeout
    \/ StepBegin
    \/ RobotTurn
    \/ AccountMove
    \/ Replan
    \/ StepEnd
    \/ CollectMetrics
    \/ DeriveNeighbor

EvaluationSpec == EvaluationInit /\ [][EvaluationNext]_vars

\* simulated_annealing_optimizer, optimization.py:138-146: any metrics can
\* be those of the initial layout
AnnealingInit ==
    \E m \in Metrics, w \in WeightSets, n \in 0..MaxIters :
        /\ EngineIdle("annealing")
        /\ EvaluationIdle
        /\ NeighborIdle
        /\ ArchiveIdle
        /\ DominatesIdle
        /\ iters = n
        /\ iteration = 0
        /\ current_solution = 0
        /\ weights = w
        /\ current_metrics = m
        /\ neighbor_metrics = ZeroMetrics
        /\ current_cost = calculate_cost(m, w)
        /\ best_cost = calculate_cost(m, w)
        /\ evaluated = {calculate_cost(m, w)}

\* optimization.py:148-169: one iteration of simulated_annealing_optimizer;
\* any metrics can be those of the neighbor
AnnealingIteration ==
    /\ pc = "annealing"
    /\ iteration < iters
    /\ \E m \in Metrics :
         LET neighbor_cost == calculate_cost(m, weights)
             cost_diff == neighbor_cost - current_cost
         IN  /\ neighbor_metrics' = m
             /\ \E accepted \in AcceptanceOutcomes(cost_diff) :
                   /\ current_cost' =
                         IF accepted THEN neighbor_cost ELSE current_cost
                   /\ current_solution' =
                         IF accepted THEN iteration + 1 ELSE current_solution
                   /\ current_metrics' =
                         IF accepted THEN m ELSE current_metrics
             /\ best_cost' = BestAfter(current_cost', best_cost)
             /\ evaluated' = evaluated \cup {neighbor_cost}
    /\ iteration' = iteration + 1
    /\ UNCHANGED <<warehouseVars, robotVars, controllerVars, path, search,
                   evaluationVars, neighborVars, archiveVars, dominatesVars,
                   iters, weights>>

\* optimization.py:173-174
AnnealingReturn ==
    /\ pc = "annealing"
    /\ iteration = iters
    /\ pc' = "returned"
    /\ UNCHANGED <<warehouseVars, robotVars, robot_commands, step_count,
                   max_steps, movements_made, robots_with_commands,
                   robots_to_replan, idx, replan_idx, outcome, path, search,
                   optimizerVars>>

AnnealingNext == AnnealingIteration \/ AnnealingReturn

AnnealingSpec == AnnealingInit /\ [][AnnealingNext]_vars

\* three metrics tuples handed to dominates
DominatesInit ==
    \E a, b, c \in Metrics :
        /\ EngineIdle("dominates")
        /\ EvaluationIdle
        /\ NeighborIdle
        /\ AnnealingIdle
        /\ ArchiveIdle
        /\ LoopIdle
        /\ tuple_a = a
        /\ tuple_b = b
        /\ tuple_c = c
        /\ verdict = <<>>

\* optimization.py:179-190, applied to the pairs of the three tuples
Dominates ==
    /\ pc = "dominates"
    /\ verdict' = [ab |-> dominates(tuple_a, tuple_b),
                   ba |-> dominates(tuple_b, tuple_a),
                   bc |-> dominates(tuple_b, tuple_c),
                   ac |-> dominates(tuple_a, tuple_c),
                   aa |-> dominates(tuple_a, tuple_a)]
    /\ pc' = "compared"
    /\ UNCHANGED <<warehouseVars, robotVars, robot_commands, step_count,
                   max_steps, movements_made, robots_with_commands,
                   robots_to_replan, idx, replan_idx, outcome, path, search,
                   evaluationVars, neighborVars, loopVars, annealingVars,
                   archiveVars, tuple_a, tuple_b, tuple_c>>

DominatesNext == Dominates

DominatesSpec == DominatesInit /\ [][DominatesNext]_vars

\* ------------------------------------------------------------------------
\* Properties of the planner
\* ------------------------------------------------------------------------
SearchStart == current_position["ROBOT_000"]

SearchGoal == target_position["ROBOT_000"]

SearchOthers == {current_position[r] : r \in Robots \ {"ROBOT_000"}}

\* a cell a legal path may enter
LegalCell(c) ==
    /\ is_valid_position(c[1], c[2])
    /\ c \notin SearchOthers
    /\ \/ c = SearchGoal
       \/ /\ ~is_blocked_position(c[1], c[2])
          /\ is_position_in_aisle(c[1], c[2])

\* the cost of entering cell c
EntryCost(c) == 1 + get_congestion(c[1], c[2]) * congestion_penalty

\* the cost of a path: the sum of the entry costs of its cells after the
\* first
RECURSIVE PathCost(_)
PathCost(p) ==
    IF Len(p) < 2 THEN 0 ELSE EntryCost(p[2]) + PathCost(Tail(p))

Least(S) == CHOOSE m \in S : \A n \in S : m <= n

\* one round of relaxation: acc extended by the least cost found for each
\* cell of todo from the costs d of the previous round
RECURSIVE RelaxInto(_, _, _)
RelaxInto(todo, d, acc) ==
    IF todo = {} THEN acc
    ELSE LET c == CHOOSE x \in todo : TRUE
             costs == {d[q] + EntryCost(c) :
                          q \in {q \in DOMAIN d : heuristic(q, c) = 1}}
                      \cup (IF c \in DOMAIN d THEN {d[c]} ELSE {})
         IN  RelaxInto(todo \ {c}, d,
                 IF LegalCell(c) /\ costs # {}
                 THEN (c :> Least(costs)) @@ acc
                 ELSE acc)

\* the least cost of a legal path of at most k steps from SearchStart to
\* each cell that such a path reaches
RECURSIVE LeastCosts(_)
LeastCosts(k) ==
    IF k = 0 THEN (SearchStart :> 0)
    ELSE RelaxInto(GridCells(width, height) \ {SearchStart},
                   LeastCosts(k - 1), (SearchStart :> 0))

\* over all legal paths (a cheapest one visits no cell twice)
AllLeastCosts == LeastCosts(width * height)

PathExists == SearchGoal \in DOMAIN AllLeastCosts

\* C5: a non-empty path returned by a_star_search has the least total cost
\* among all legal paths from start to goal
PlannerOptimal ==
    (pc = "searched" /\ path # <<>>) =>
        PathCost(path) = AllLeastCosts[SearchGoal]

\* C6: a_star_search returns the empty list if and only if no legal path
\* from start to goal exists
PlannerComplete ==
    pc = "searched" => (path = <<>> <=> ~PathExists)

\* a search that found no path, and one that reached a blocked goal
PlannerCompleteWitness ==
    /\ pc = "searched"
    /\ path = <<>>
    /\ SearchStart # SearchGoal
    /\ SearchGoal \notin SearchOthers

\* C7: a non-empty returned path leads from start to goal by 4-adjacent
\* steps, visits no cell twice, and after the start enters only cells that
\* are in bounds, free of other robots, and unblocked aisle cells or the goal
PathValid ==
    (pc = "searched" /\ path # <<>>) =>
        /\ path[1] = SearchStart
        /\ path[Len(path)] = SearchGoal
        /\ \A i \in 1..(Len(path) - 1) : heuristic(path[i], path[i + 1]) = 1
        /\ \A i, j \in DOMAIN path : i # j => path[i] # path[j]
        /\ \A i \in 2..Len(path) :
              /\ is_valid_position(path[i][1], path[i][2])
              /\ path[i] \notin SearchOthers
              /\ (\/ is_blocked_position(path[i][1], path[i][2])
                  \/ ~is_position_in_aisle(path[i][1], path[i][2]))
                    => path[i] = SearchGoal

\* a returned path that goes around the other robot to a blocked goal
PathValidWitness ==
    /\ pc = "searched"
    /\ Len(path) > heuristic(SearchStart, SearchGoal) + 1
    /\ is_blocked_position(SearchGoal[1], SearchGoal[2])
    /\ \E c \in SearchOthers :
          heuristic(SearchStart, c) + heuristic(c, SearchGoal)
              = heuristic(SearchStart, SearchGoal)

\* ------------------------------------------------------------------------
\* Properties of the engine
\* ------------------------------------------------------------------------
\* C1: after every move attempt no two active robots occupy the same cell
NoPhantomOccupancy ==
    \A r1, r2 \in Robots :
        r1 # r2 => current_position[r1] # current_position[r2]

\* a robot was refused the cell on which another robot stands
NoPhantomOccupancyWitness ==
    \E r, o \in Robots :
        /\ r # o
        /\ pc \in {"turn", "replan"}
        /\ r \in Range(robots_to_replan)
        /\ blocked_attempts[r] > 0
        /\ robot_commands[r] # <<>>
        /\ Destination(current_position[r], Head(robot_commands[r]))
              = current_position[o]

\* C2: execute_all_steps terminates
Terminates == <>(pc = "done")

\* a run that ended although a robot never had a path to its target
TerminatesWitness ==
    /\ pc = "done"
    /\ \E r \in Robots :
          /\ ~is_at_target(r)
          /\ Len(movement_history[r]) = 1
          /\ blocked_attempts[r] = 0

\* C3: the number of ticks executed by execute_all_steps(max_steps) on a
\* fresh controller, which is step_count, is at most max_steps
TickBound == step_count <= max_steps

\* no robot has commands, and the planner finds no path for any robot that
\* is not at its target: no later tick changes anything
DeadEnd ==
    /\ \E r \in Robots : ~is_at_target(r)
    /\ \A r \in Robots :
          /\ robot_commands[r] = <<>>
          /\ ~is_at_target(r) => generate_path_commands(r) = <<>>

\* C4: a run that reaches a dead end is stopped by the gridlock condition
\* of execute_one_step
GridlockDetected ==
    (pc = "done" /\ DeadEnd) => outcome = "gridlock"

\* the robot whose turn it is in the move phase
TurnRobot == active_robots[idx]

\* the robot of the turn attempts a move in this step
MoveAttempted == pc = "turn" /\ robot_commands'[TurnRobot] # <<>>

\* the cell the attempted move leads to
AttemptedCell ==
    Destination(current_position[TurnRobot], Head(robot_commands'[TurnRobot]))

\* traversable as the data model states it: in bounds, aisle, dock or
\* station, free of other robots, and not blocked unless a dock or station
TraversableFor(r, c) ==
    /\ is_valid_position(c[1], c[2])
    /\ is_position_in_aisle(c[1], c[2])
    /\ \A o \in Robots : o # r => current_position[o] # c
    /\ \/ ~is_blocked_position(c[1], c[2])
       \/ c \in Range(entry_docks) \cup Range(packing_stations)

\* C8: a unit move onto a cell succeeds if and only if the cell is in
\* bounds, an aisle, dock or station cell, free of other robots, and not
\* blocked, where dock and station cells are exempt from the blocked check
MoveIffTraversable ==
    [][MoveAttempted =>
          (current_position'[TurnRobot] = AttemptedCell
              <=> TraversableFor(TurnRobot, AttemptedCell))]_vars

\* the fields of every robot other than r keep their values
OthersUntouched(r) ==
    \A o \in Robots \ {r} :
        /\ current_position'[o] = current_position[o]
        /\ movement_history'[o] = movement_history[o]
        /\ total_energy_spent'[o] = total_energy_spent[o]
        /\ successful_moves'[o] = successful_moves[o]
        /\ blocked_attempts'[o] = blocked_attempts[o]
        /\ total_congestion_penalty'[o] = total_congestion_penalty[o]
        /\ robot_commands'[o] = robot_commands[o]

\* C9: a failed move attempt leaves position, history, queue and congestion
\* map as they were, marks the robot for replanning, and changes no counter
\* but blocked_attempts (+1) and the energy (+0.5)
FailedMoveLeavesState ==
    [][(MoveAttempted /\ pc' # "account") =>
          /\ current_position'[TurnRobot] = current_position[TurnRobot]
          /\ movement_history'[TurnRobot] = movement_history[TurnRobot]
          /\ robot_commands'[TurnRobot] = QueueAfterRefill(TurnRobot)
          /\ congestion_map' = congestion_map
          /\ TurnRobot \in Range(robots_to_replan')
          /\ blocked_attempts'[TurnRobot] = blocked_attempts[TurnRobot] + 1
          /\ total_energy_spent'[TurnRobot]
                = total_energy_spent[TurnRobot] + 1
          /\ successful_moves'[TurnRobot] = successful_moves[TurnRobot]
          /\ total_congestion_penalty'[TurnRobot]
                = total_congestion_penalty[TurnRobot]
          /\ movements_made' = movements_made
          /\ OthersUntouched(TurnRobot)]_vars

\* a robot has just failed to enter a cell that is blocked or outside the
\* aisles
FailedMoveWitness ==
    \E r \in Robots :
        /\ pc \in {"turn", "replan"}
        /\ r \in Range(robots_to_replan)
        /\ blocked_attempts[r] > 0
        /\ robot_commands[r] # <<>>
        /\ LET c == Destination(current_position[r], Head(robot_commands[r]))
           IN  \/ is_blocked_position(c[1], c[2])
               \/ ~is_position_in_aisle(c[1], c[2])

\* C10: after a successful move one command leaves the head of the queue
\* and the count of the new cell grows by one; a resulting count L above 1
\* adds L - 1 to energy and congestion penalty and marks the robot, a count
\* of 1 adds nothing and does not mark it
SuccessfulMoveEffects ==
    [][pc = "account" =>
          LET r == TurnRobot
              c == current_position[r]
              L == congestion_map'[c]
          IN  /\ robot_commands[r] # <<>>
              /\ robot_commands'[r] = Tail(robot_commands[r])
              /\ L = get_congestion(c[1], c[2]) + 1
              /\ \A d \in DOMAIN congestion_map \ {c} :
                    congestion_map'[d] = congestion_map[d]
              /\ IF L > 1
                 THEN /\ total_congestion_penalty'[r]
                            = total_congestion_penalty[r] + (L - 1)
                      /\ total_energy_spent'[r]
                            = total_energy_spent[r] + 2 * (L - 1)
                      /\ r \in Range(robots_to_replan')
                 ELSE /\ total_congestion_penalty'[r]
                            = total_congestion_penalty[r]
                      /\ total_energy_spent'[r] = total_energy_spent[r]
                      /\ r \notin Range(robots_to_replan')
              /\ OthersUntouched(r)]_vars

\* a robot moved onto a cell that had been entered before, and another
\* move met no congestion
SuccessfulMoveWitness ==
    /\ \E r \in Robots : total_congestion_penalty[r] > 0
    /\ \E c \in DOMAIN congestion_map : congestion_map[c] = 1

\* ------------------------------------------------------------------------
\* Properties of the archive and of domination
\* ------------------------------------------------------------------------
\* A is no worse than B in every objective and better in at least one
NoWorseAndBetter(A, B) ==
    /\ \A k \in DOMAIN MetricKeys : A[MetricKeys[k]] <= B[MetricKeys[k]]
    /\ \E k \in DOMAIN MetricKeys : A[MetricKeys[k]] < B[MetricKeys[k]]

\* C11: after any sequence of update_archive calls on an archive without
\* mutual domination, no tuple of the archive dominates another one
ArchiveInvariant ==
    \A j, k \in DOMAIN archive : ~NoWorseAndBetter(archive[j], archive[k])

\* the last update discarded an archived tuple that the new tuple dominates
\* and kept another one beside the new tuple
ArchiveInvariantWitness ==
    /\ iteration > 0
    /\ Len(archive) >= 2
    /\ neighbor_metrics \in Range(archive)
    /\ \E s \in submitted \ Range(archive) :
          NoWorseAndBetter(neighbor_metrics, s)

\* the submitted tuples that no submitted tuple dominates
Frontier(tuples) ==
    {m \in tuples : ~\E o \in tuples : NoWorseAndBetter(o, m)}

\* C12: after any sequence of update_archive calls from a one-element
\* archive, the tuples of the archive are exactly the submitted tuples that
\* no other submitted tuple dominates
ArchiveIsFrontier == Range(archive) = Frontier(submitted)

\* C13: update_archive called with a tuple that an archived tuple dominates
\* returns an archive with exactly the members of the input archive
DominatedCandidateDiscarded ==
    [][(pc = "mosa" /\ iteration' = iteration + 1
        /\ \E o \in Range(archive) : NoWorseAndBetter(o, neighbor_metrics'))
          => /\ Range(archive') = Range(archive)
             /\ Len(archive') = Len(archive)]_vars

\* C14: dominates(A, B) holds iff A is <= B in every objective and < B in
\* at least one, and it is irreflexive, asymmetric and transitive
DominationStrictOrder ==
    pc = "compared" =>
        /\ verdict.ab <=> NoWorseAndBetter(tuple_a, tuple_b)
        /\ verdict.ba <=> NoWorseAndBetter(tuple_b, tuple_a)
        /\ ~verdict.aa
        /\ verdict.ab => ~verdict.ba
        /\ (verdict.ab /\ verdict.bc) => verdict.ac

\* a chain of three tuples, each dominating the next, was compared
DominationStrictOrderWitness ==
    /\ pc = "compared"
    /\ verdict.ab
    /\ verdict.bc
    /\ verdict.ac

\* ------------------------------------------------------------------------
\* Properties of simulated annealing
\* ------------------------------------------------------------------------
\* C15: at the end of every iteration best_cost is not larger than at the
\* end of the previous one, and it is the least of the cost of the initial
\* layout and the costs of all neighbors evaluated so far, accepted or not
AnnealingMonotoneBest ==
    /\ [](best_cost = Least(evaluated))
    /\ [][best_cost' <= best_cost]_vars

\* a dearer neighbor was accepted, and the next, dearer still, was rejected
AnnealingMonotoneBestWitness ==
    /\ pc = "annealing"
    /\ iteration > 1
    /\ best_cost < current_cost
    /\ current_cost < calculate_cost(neighbor_metrics, weights)

\* ------------------------------------------------------------------------
\* Properties of neighbor generation
\* ------------------------------------------------------------------------
\* the dock and station cells of the layout
Infrastructure == Range(entry_docks) \cup Range(packing_stations)

\* the cells of all aisle position lists
AislePositions ==
    {c \in GridCells(width, height) :
        \E a \in DOMAIN aisles : c \in Range(aisles[a])}

\* a swap has a blocked cell and an aisle cell outside the infrastructure
\* to choose
EligibleSwapExists ==
    /\ blocked_positions \ Infrastructure # {}
    /\ AislePositions \ Infrastructure # {}

\* C19: no dock or station cell is chosen as a cell of a swap, and docks,
\* stations and the membership of each of their cells in the blocked set
\* are the same in the derived layout
InfrastructureImmutable ==
    [][/\ storage_to_become_aisle' \notin Infrastructure
       /\ aisle_to_become_storage' \notin Infrastructure
       /\ entry_docks' = entry_docks
       /\ packing_stations' = packing_stations
       /\ \A c \in Infrastructure :
             c \in blocked_positions' <=> c \in blocked_positions]_vars

\* a swap was made in a layout whose aisles run through a dock and a
\* station
InfrastructureImmutableWitness ==
    /\ iteration > 0
    /\ aisle_to_become_storage # <<>>
    /\ storage_to_become_aisle # <<>>
    /\ Range(entry_docks) \cap AislePositions # {}
    /\ Range(packing_stations) \cap AislePositions # {}

\* C20: without an eligible pair of cells get_neighbor_layout returns a
\* layout with the blocked set, aisle cells, docks and stations of its input
NoSwapIsNoOp ==
    [][(iteration' = iteration + 1 /\ ~EligibleSwapExists)
          => /\ blocked_positions' = blocked_positions
             /\ aisles' = aisles
             /\ entry_docks' = entry_docks
             /\ packing_stations' = packing_stations]_vars

\* a call returned without a swap for a layout with a blocked dock and free
\* aisle cells, or for one with storage and no free aisle cell
NoSwapIsNoOpWitness ==
    /\ iteration > 0
    /\ aisle_to_become_storage = <<>>
    /\ \/ blocked_positions # {} /\ AislePositions \ Infrastructure # {}
       \/ blocked_positions \ Infrastructure # {}

\* ------------------------------------------------------------------------
\* Properties of evaluate_layout
\* ------------------------------------------------------------------------
\* C16: after evaluate_layout returns, the warehouse passed by the caller
\* has the active-robot list and the congestion map it had before the call
EvaluationOnPrivateCopy ==
    pc = "returned" =>
        /\ active_robots = at_call.active_robots
        /\ congestion_map = at_call.congestion_map

\* the number of moves of robot r, after the first k - 1 positions of its
\* history, that entered cell c
RECURSIVE EntriesFrom(_, _, _)
EntriesFrom(k, r, c) ==
    IF k > Len(movement_history[r]) THEN 0
    ELSE (IF movement_history[r][k] = c THEN 1 ELSE 0)
         + EntriesFrom(k + 1, r, c)

\* the number of moves of the robots of fleet that entered cell c
RECURSIVE EntriesOf(_, _)
EntriesOf(fleet, c) ==
    IF fleet = <<>> THEN 0
    ELSE EntriesFrom(2, Head(fleet), c) + EntriesOf(Tail(fleet), c)

\* C17: the simulation of every evaluate_layout run starts with no cell
\* counted as visited and with only the robots just created, which stand
\* on docks with stations as targets and have spent nothing; the returned
\* max_congestion counts only the moves of these robots
CleanEvaluationStart ==
    /\ pc = "simulate" =>
          /\ \A c \in GridCells(width, height) : get_congestion(c[1], c[2]) = 0
          /\ Len(active_robots) <= num_robots
          /\ \A r \in Robots :
                /\ current_position[r] \in Range(entry_docks)
                /\ target_position[r] \in Range(packing_stations)
                /\ movement_history[r] = <<current_position[r]>>
                /\ total_energy_spent[r] = 0
                /\ successful_moves[r] = 0
                /\ blocked_attempts[r] = 0
                /\ total_congestion_penalty[r] = 0
    /\ pc = "returned" =>
          /\ \A c \in GridCells(width, height) :
                EntriesOf(active_robots, c) <= metrics.max_congestion
          /\ \/ metrics.max_congestion = 0
             \/ \E c \in GridCells(width, height) :
                   EntriesOf(active_robots, c) = metrics.max_congestion

\* an evaluation starts its simulation on a warehouse that came with the
\* robots and the congestion counts of an earlier evaluation
CleanEvaluationStartWitness ==
    /\ pc = "simulate"
    /\ Robots # {}
    /\ at_call.active_robots # <<>>
    /\ \E c \in DOMAIN at_call.congestion_map :
          at_call.congestion_map[c] > 1

\* more robots are wanted than the layout has docks or stations
InvalidConfiguration ==
    \/ num_robots > Len(entry_docks)
    \/ num_robots > Len(packing_stations)

\* C18: evaluate_layout called with more robots than the layout has docks
\* or stations fails before any simulation work begins and returns no
\* metrics
InvalidConfigurationFailsFast ==
    InvalidConfiguration => pc = "evaluate" /\ iteration = 0

\* ------------------------------------------------------------------------
\* a_star_search between alternative routes
\* ------------------------------------------------------------------------
\* a ring of aisles around one storage cell: two routes join opposite cells
RingLayout ==
    [width |-> 3, height |-> 3,
     aisles |-> <<add_aisle(0, 0, 2, 0), add_aisle(0, 2, 2, 2),
                  add_aisle(0, 0, 0, 2), add_aisle(2, 0, 2, 2)>>,
     entry_docks |-> <<>>,
     packing_stations |-> <<>>,
     storage |-> {<<1, 1>>}]

\* a 5x5 grid with one aisle along x = 2 from the station at (2, 0) to the
\* dock at (2, 4)
StraightAisleLayout ==
    [width |-> 5, height |-> 5,
     aisles |-> <<add_aisle(2, 0, 2, 4)>>,
     entry_docks |-> << <<2, 4>> >>,
     packing_stations |-> << <<2, 0>> >>,
     storage |-> {}]

\* a 3x3 grid of aisles without obstacles
OpenGridLayout ==
    [width |-> 3, height |-> 3,
     aisles |-> <<add_aisle(0, 0, 2, 0), add_aisle(0, 1, 2, 1),
                  add_aisle(0, 2, 2, 2)>>,
     entry_docks |-> <<>>,
     packing_stations |-> <<>>,
     storage |-> {}]

RouteLayouts == {WideLayout, RingLayout, OpenGridLayout, StraightAisleLayout}

\* one robot alone; any set of walkable cells has been entered the same
\* number of times, and no other cell has been entered
RouteInit ==
    \E l \in RouteLayouts :
      \E hot \in SUBSET StartCells(l), level \in 1..MaxCongestion :
        \E start \in StartCells(l), goal \in GridCells(l.width, l.height) :
          /\ WarehouseIs(l, [c \in GridCells(l.width, l.height) |->
                                IF c \in hot THEN level ELSE 0],
                         <<"ROBOT_000">>)
          /\ RobotsAre([r \in {"ROBOT_000"} |-> start],
                       [r \in {"ROBOT_000"} |-> goal])
          /\ ControllerIs(<<"ROBOT_000">>, 1, "search")
          /\ path = <<>>
          /\ search = <<>>
          /\ OptimizerIdle

RouteSpec == RouteInit /\ [][PlannerNext]_vars

\* the legal routes without a repeated cell that extend prefix to the goal
RECURSIVE RoutesFrom(_)
RoutesFrom(prefix) ==
    LET last == prefix[Len(prefix)]
    IN  IF last = SearchGoal THEN {prefix}
        ELSE UNION {RoutesFrom(Append(prefix, c)) :
                       c \in {c \in GridCells(width, height) :
                                 /\ heuristic(last, c) = 1
                                 /\ LegalCell(c)
                                 /\ c \notin Range(prefix)}}

Routes == RoutesFrom(<<SearchStart>>)

\* the cells of a route strictly between its start and its goal
Intermediate(route) == {route[i] : i \in 2..(Len(route) - 1)}

\* busy and quiet are cell-disjoint routes of equal length, every
\* intermediate cell of busy has congestion of at least 1 and every cell of
\* quiet has congestion 0
BusyAndQuiet(busy, quiet) ==
    /\ Len(busy) = Len(quiet)
    /\ Intermediate(busy) \cap Intermediate(quiet) = {}
    /\ \A c \in Intermediate(busy) : congestion_map[c] >= 1
    /\ \A c \in Range(quiet) : congestion_map[c] = 0

StraightLine(a, b) ==
    LET Sign(n) == IF n < 0 THEN -1 ELSE IF n > 0 THEN 1 ELSE 0
    IN  [i \in 1..(heuristic(a, b) + 1) |->
            <<a[1] + (i - 1) * Sign(b[1] - a[1]),
              a[2] + (i - 1) * Sign(b[2] - a[2])>>]

\* no cell has congestion, and start and goal are in one row or column
\* with only legal cells from the start to the goal
StraightAisleJoins ==
    /\ \A c \in DOMAIN congestion_map : congestion_map[c] = 0
    /\ SearchOthers = {}
    /\ SearchStart[1] = SearchGoal[1] \/ SearchStart[2] = SearchGoal[2]
    /\ \A i \in 2..(heuristic(SearchStart, SearchGoal) + 1) :
          LegalCell(StraightLine(SearchStart, SearchGoal)[i])

\* C22: with zero congestion, no other robots and a straight aisle joining
\* start and goal, a_star_search returns exactly the cells of the straight
\* line from start to goal in order: Manhattan distance plus one cells, at
\* a cost equal to the Manhattan distance
StraightLinePlan ==
    (pc = "searched" /\ StraightAisleJoins) =>
        /\ path = StraightLine(SearchStart, SearchGoal)
        /\ Len(path) = heuristic(SearchStart, SearchGoal) + 1
        /\ PathCost(path) = heuristic(SearchStart, SearchGoal)

\* the plan from the dock at (2, 4) to the station at (2, 0) of the 5x5
\* grid
StraightLinePlanWitness ==
    /\ pc = "searched"
    /\ StraightAisleJoins
    /\ width = 5
    /\ SearchStart = <<2, 4>>
    /\ SearchGoal = <<2, 0>>
    /\ path = << <<2, 4>>, <<2, 3>>, <<2, 2>>, <<2, 1>>, <<2, 0>> >>

\* ------------------------------------------------------------------------
\* The engine as a function of its inputs
\* ------------------------------------------------------------------------
\* C23: execute_all_steps is a deterministic function of the grid, the
\* robot order, the starts, the targets and max_steps: whenever the engine
\* takes a step, no step to any other state is possible, so that two runs
\* from equal initial states pass through the same states and end with the
\* same positions, histories, congestion map and energy reports
EngineDeterministic ==
    [][\E after \in {vars'} : ~ENABLED (Next /\ vars' # after)]_vars

\* a run of two robots has ended after both moved and one was blocked
EngineDeterministicWitness ==
    /\ pc = "done"
    /\ Len(active_robots) = 2
    /\ \A r \in Robots : Len(movement_history[r]) > 1
    /\ \E r \in Robots : blocked_attempts[r] > 0
    /\ \E c \in DOMAIN congestion_map : congestion_map[c] > 0

\* ------------------------------------------------------------------------
\* The acceptance rule of mosa_optimizer
\* ------------------------------------------------------------------------
\* C24: in every iteration of mosa_optimizer, if the neighbor dominates the
\* current solution the search moves to it (the current solution and the
\* current metrics become the neighbor's), and update_archive is applied to
\* the neighbor's metrics whether or not the search moved
MosaMovesToDominating ==
    [][iteration' = iteration + 1 =>
          /\ NoWorseAndBetter(neighbor_metrics', current_metrics) =>
                /\ current_solution' = iteration'
                /\ current_metrics' = neighbor_metrics'
          /\ archive' = update_archive(archive, neighbor_metrics')
          /\ neighbor_metrics' \in submitted']_vars

\* the first neighbor dominated the initial solution and is the current
\* solution
MosaMovesToDominatingWitness ==
    /\ pc = "mosa"
    /\ iteration = 1
    /\ current_solution = 1
    /\ current_metrics = neighbor_metrics
    /\ \E initial \in submitted : NoWorseAndBetter(current_metrics, initial)

\* ------------------------------------------------------------------------
\* The energy accounts of the robots
\* ------------------------------------------------------------------------
\* C25: for every robot, at all times, total_energy_spent =
\* 1.0 * successful_moves + 0.5 * blocked_attempts +
\* total_congestion_penalty (here in units of 0.5), and every increase of
\* total_congestion_penalty comes with the same increase of
\* total_energy_spent in the same step
EnergyLockstep ==
    /\ [](\A r \in Robots :
             total_energy_spent[r] =
                 2 * successful_moves[r] + blocked_attempts[r]
                 + 2 * total_congestion_penalty[r])
    /\ [][\A r \in Robots :
             total_congestion_penalty'[r] # total_congestion_penalty[r] =>
                 total_energy_spent'[r] - total_energy_spent[r] =
                     2 * (total_congestion_penalty'[r]
                          - total_congestion_penalty[r])]_vars

\* a robot has moved, has been blocked and has paid a congestion penalty
EnergyLockstepWitness ==
    \E r \in Robots :
        /\ successful_moves[r] > 0
        /\ blocked_attempts[r] > 0
        /\ total_congestion_penalty[r] > 0

\* C26: every robot that starts on a cell of the grid is on a cell of the
\* grid at all times, and its total_energy_spent never decreases
AgentInvariant ==
    /\ [](\A r \in Robots :
             /\ 0 <= current_position[r][1]
             /\ current_position[r][1] < width
             /\ 0 <= current_position[r][2]
             /\ current_position[r][2] < height)
    /\ [][\A r \in Robots :
             total_energy_spent'[r] >= total_energy_spent[r]]_vars

\* a robot has moved to the edge of the grid, and a robot has paid for a
\* blocked attempt and for congestion
AgentInvariantWitness ==
    /\ \E r \in Robots :
          /\ Len(movement_history[r]) > 1
          /\ current_position[r][1] = width - 1
    /\ \E r \in Robots :
          /\ blocked_attempts[r] > 0
          /\ total_congestion_penalty[r] > 0

\* ------------------------------------------------------------------------
\* The end of a run
\* ------------------------------------------------------------------------
\* C27: when execute_all_steps ends because every active robot is at its
\* target, every robot's command queue is empty
SuccessMeansEmptyQueues ==
    (pc = "done" /\ AllAtTarget) =>
        \A r \in Robots : robot_commands[r] = <<>>

\* a run of two robots that both had to move has ended with both at their
\* targets
SuccessMeansEmptyQueuesWitness ==
    /\ pc = "done"
    /\ outcome = "success"
    /\ AllAtTarget
    /\ Len(active_robots) = 2
    /\ \A r \in Robots : Len(movement_history[r]) > 1

\* a lone robot for which the planner returned a path of at least one and
\* at most max_steps steps, before the first tick
LoneRobotPlanned ==
    /\ pc = "loop"
    /\ step_count = 0
    /\ active_robots = <<"ROBOT_000">>
    /\ robot_commands["ROBOT_000"] # <<>>
    /\ Len(robot_commands["ROBOT_000"]) <= max_steps

\* C28: a lone robot for which a_star_search returned a non-empty path of
\* k <= max_steps steps is at its target when execute_all_steps ends,
\* whatever the kind of its target cell
PlannedGoalReached ==
    LoneRobotPlanned ~> (pc = "done" /\ AllAtTarget)

\* ------------------------------------------------------------------------
\* a_star_search, one iteration of its loop at a time
\* ------------------------------------------------------------------------
\* the search state handed to ExploreNeighbors
SearchState ==
    [open_set |-> search.open_set,
     came_from |-> search.came_from,
     g_score |-> search.g_score]

\* the entries that the loop over the neighbors of current added to the
\* open set, in the order of their pushes
NewEntries(current, before, after) ==
    LET cell(k) == <<current[1] + neighbor_offsets[k][1],
                     current[2] + neighbor_offsets[k][2]>>
        entryAt(k) == {e \in after \ before : e[2] = cell(k)}
        upTo[k \in 0..Len(neighbor_offsets)] ==
            IF k = 0 THEN <<>>
            ELSE IF entryAt(k) = {} THEN upTo[k - 1]
            ELSE Append(upTo[k - 1], CHOOSE e \in entryAt(k) : TRUE)
    IN  upTo[Len(neighbor_offsets)]

\* the sequence s without its element e
Without(s, e) == SelectSeq(s, LAMBDA x : x # e)

\* pathfinding.py:32-49: the locals before the loop
SearchBegin ==
    /\ pc = "heap"
    /\ search' = [open_set |-> {<<0, SearchStart>>},
                  came_from |-> <<>>,
                  g_score |-> (SearchStart :> 0),
                  closed_set |-> {},
                  pushed |-> << <<0, SearchStart>> >>,
                  current |-> <<>>]
    /\ pc' = "open"
    /\ UNCHANGED <<warehouseVars, robotVars, robot_commands, step_count,
                   max_steps, movements_made, robots_with_commands,
                   robots_to_replan, idx, replan_idx, outcome, path,
                   optimizerVars>>

\* pathfinding.py:51-108: an iteration that pops a cell other than the goal
Expand ==
    /\ pc = "open"
    /\ search.open_set # {}
    /\ \E e \in {heappop(search.open_set)} :
         /\ e[2] # SearchGoal
         /\ \E st \in {ExploreNeighbors(1, e[2], SearchGoal,
                           search.closed_set \cup {e[2]}, SearchOthers,
                           [SearchState EXCEPT !.open_set = @ \ {e}])} :
              search' = [open_set |-> st.open_set,
                         came_from |-> st.came_from,
                         g_score |-> st.g_score,
                         closed_set |-> search.closed_set \cup {e[2]},
                         pushed |-> Without(search.pushed, e) \o
                                    NewEntries(e[2], search.open_set,
                                               st.open_set),
                         current |-> e[2]]
    /\ UNCHANGED <<warehouseVars, robotVars, controllerVars, path,
                   optimizerVars>>

\* pathfinding.py:51-63: the goal is popped and the path is returned
SearchReturn ==
    /\ pc = "open"
    /\ search.open_set # {}
    /\ \E e \in {heappop(search.open_set)} :
         /\ e[2] = SearchGoal
         /\ search' = [search EXCEPT !.open_set = @ \ {e},
                                     !.pushed = Without(@, e),
                                     !.current = e[2]]
         /\ path' = ReconstructPath(e[2], search.came_from, SearchStart)
    /\ pc' = "searched"
    /\ UNCHANGED <<warehouseVars, robotVars, robot_commands, step_count,
                   max_steps, movements_made, robots_with_commands,
                   robots_to_replan, idx, replan_idx, outcome,
                   optimizerVars>>

\* pathfinding.py:111: the open set is empty, no path is returned
SearchFail ==
    /\ pc = "open"
    /\ search.open_set = {}
    /\ path' = <<>>
    /\ pc' = "searched"
    /\ UNCHANGED <<warehouseVars, robotVars, robot_commands, step_count,
                   max_steps, movements_made, robots_with_commands,
                   robots_to_replan, idx, replan_idx, outcome, search,
                   optimizerVars>>

\* the inputs of the planner: a layout, one cell with the congestion left
\* by earlier moves, a start, a goal and the cell of the other robot
HeapInit ==
    \E l \in {WideLayout, ObstacleLayout}, fleet \in Fleets :
      \E hot \in GridCells(l.width, l.height), level \in 0..MaxCongestion :
        \E starts, targets \in [Range(fleet) -> GridCells(l.width, l.height)] :
          /\ \A r1, r2 \in Range(fleet) : r1 # r2 => starts[r1] # starts[r2]
          /\ \A r \in Range(fleet) \ {"ROBOT_000"} : targets[r] = starts[r]
          /\ WarehouseIs(l, [c \in GridCells(l.width, l.height) |->
                                IF c = hot THEN level ELSE 0], fleet)
          /\ RobotsAre(starts, targets)
          /\ ControllerIs(fleet, 1, "heap")
          /\ path = <<>>
          /\ search = <<>>
          /\ OptimizerIdle

HeapNext ==
    \/ SearchBegin
    \/ Expand
    \/ SearchReturn
    \/ SearchFail

HeapSpec == HeapInit /\ [][HeapNext]_vars

\* the place of entry e in the order of the pushes
PushIndex(e) == CHOOSE i \in DOMAIN search.pushed : search.pushed[i] = e

\* C29: among the open-set entries of equal f, the one pushed first is
\* expanded first: no entry popped by an iteration of the loop was pushed
\* after another entry of the same f that is still in the open set
TiesInInsertionOrder ==
    [][(pc = "open" /\ search.open_set # {}) =>
          \A e \in search.open_set \ search'.open_set :
              e[2] = search'.current =>
                  \A o \in search.open_set :
                      o[1] = e[1] => PushIndex(e) <= PushIndex(o)]_vars

\* the loop run one iteration at a time returns what a_star_search returns
SearchAgrees ==
    pc = "searched" =>
        path = a_star_search(SearchStart, SearchGoal, "ROBOT_000",
                             get_robot_positions)

\* ------------------------------------------------------------------------
\* The replanning phase of a tick
\* ------------------------------------------------------------------------
\* the place of robot r in the order of the move phase
TurnIndex(r) == CHOOSE i \in DOMAIN active_robots : active_robots[i] = r

\* the cell reached from pos by the moves of queue
RECURSIVE Walk(_, _)
Walk(pos, queue) ==
    IF queue = <<>> THEN pos
    ELSE Walk(Destination(pos, Head(queue)), Tail(queue))

\* C30: within one tick no robot marked during the move phase is replanned
\* before every active robot has had its move attempt; then every marked
\* robot is replanned exactly once, in the order of the marking, and the
\* replanning replaces the whole queue of the robot by a plan computed from
\* the position it has at that time
ReplanOrdering ==
    /\ [](/\ \A j, k \in DOMAIN robots_to_replan :
                j < k => TurnIndex(robots_to_replan[j])
                             < TurnIndex(robots_to_replan[k])
          /\ pc = "replan" => idx = Len(active_robots) + 1)
    /\ [][/\ pc \in {"turn", "account"} =>
                \A r \in Range(robots_to_replan) :
                    robot_commands'[r] = robot_commands[r]
          /\ pc = "replan" =>
                /\ robots_to_replan' = robots_to_replan
                /\ current_position' = current_position
                /\ IF pc' = "replan"
                   THEN /\ replan_idx <= Len(robots_to_replan)
                        /\ replan_idx' = replan_idx + 1
                        /\ \A r \in Robots :
                              robot_commands'[r] =
                                  IF r = robots_to_replan[replan_idx]
                                  THEN generate_path_commands(r)
                                  ELSE robot_commands[r]
                        /\ LET r == robots_to_replan[replan_idx]
                           IN  robot_commands'[r] # <<>> =>
                                   Walk(current_position[r],
                                        robot_commands'[r])
                                       = target_position[r]
                   ELSE /\ replan_idx = Len(robots_to_replan) + 1
                        /\ robot_commands' = robot_commands]_vars

\* both robots were marked in the move phase of one tick and both have
\* been replanned, one of them to a new queue
ReplanOrderingWitness ==
    /\ pc = "replan"
    /\ Len(robots_to_replan) = 2
    /\ replan_idx = 3
    /\ \E r \in Robots : robot_commands[r] # <<>>


\* ------------------------------------------------------------------------
\* One step per tick
\* ------------------------------------------------------------------------
\* the move attempts robot r has made: every successful move appends a cell
\* to its history, every failed one counts as a blocked attempt
Attempts(r) == Len(movement_history[r]) - 1 + blocked_attempts[r]

\* a turn of the move phase: the robot of the turn makes at most one
\* attempt, stays or moves to a 4-adjacent cell, and its queue is replaced
\* only when it was empty away from the target
OneAttemptInTurn ==
    pc = "turn" =>
       \E r \in {TurnRobot} :
          /\ OthersUntouched(r)
          /\ Attempts(r)' \in {Attempts(r), Attempts(r) + 1}
          /\ \/ current_position'[r] = current_position[r]
             \/ heuristic(current_position'[r], current_position[r]) = 1
          /\ robot_commands'[r] # robot_commands[r] =>
                robot_commands[r] = <<>> /\ ~is_at_target(r)
          /\ \/ pc' = "account" /\ idx' = idx
             \/ idx' = idx + 1

\* the bookkeeping of a successful move consumes exactly the token that was
\* executed and ends the turn of the robot
OneTokenConsumed ==
    pc = "account" =>
       \E r \in {TurnRobot} :
          /\ OthersUntouched(r)
          /\ robot_commands'[r] = Tail(robot_commands[r])
          /\ current_position' = current_position
          /\ Attempts(r)' = Attempts(r)
          /\ idx' = idx + 1

\* outside the move phase no robot moves or attempts to
NoAttemptElsewhere ==
    pc \notin {"turn", "account"} =>
       \A r \in Robots :
          /\ current_position'[r] = current_position[r]
          /\ Attempts(r)' = Attempts(r)

\* C31: in one execute_one_step call every active robot has one turn, in
\* which it makes at most one move attempt, moves by at most one
\* 4-adjacent cell and consumes at most one token of its queue; the move
\* phase refills a queue only when it is empty and the robot is not at its
\* target; so after n ticks a robot has made at most n attempts
OneStepPerTick ==
    /\ [](\A r \in Robots : Attempts(r) <= step_count)
    /\ [](pc \in {"turn", "account"} => idx \in DOMAIN active_robots)
    /\ [][OneAttemptInTurn /\ OneTokenConsumed /\ NoAttemptElsewhere]_vars

\* in its second tick a robot has moved twice, and its queue, refilled in
\* the first tick, still holds a token
OneStepPerTickWitness ==
    /\ pc = "replan"
    /\ step_count = 2
    /\ \E r \in Robots :
          /\ Len(movement_history[r]) = 3
          /\ robot_commands[r] # <<>>


\* ------------------------------------------------------------------------
\* No path is a soft failure
\* ------------------------------------------------------------------------
\* the turn of robot r begins with an empty queue away from its target
PlannerAsked(r) ==
    /\ pc = "turn"
    /\ r = TurnRobot
    /\ robot_commands[r] = <<>>
    /\ ~is_at_target(r)

\* no field of robot r changes
RobotUntouched(r) ==
    /\ current_position'[r] = current_position[r]
    /\ movement_history'[r] = movement_history[r]
    /\ total_energy_spent'[r] = total_energy_spent[r]
    /\ successful_moves'[r] = successful_moves[r]
    /\ blocked_attempts'[r] = blocked_attempts[r]
    /\ total_congestion_penalty'[r] = total_congestion_penalty[r]

\* C32: whenever the turn of a robot begins with an empty queue away from
\* its target, in the first tick or a later one, the planner is asked and
\* its answer becomes the queue; when it finds no path the queue stays
\* empty, no field of any robot changes, the robot is not marked for
\* replanning, the run does not end, and the move phase goes on to the next
\* robot, or to the replanning phase after the last one
NoPathIsSoft ==
    [][\A r \in Robots :
          PlannerAsked(r) =>
             /\ robot_commands'[r] = generate_path_commands(r)
             /\ generate_path_commands(r) = <<>> =>
                   /\ RobotUntouched(r)
                   /\ OthersUntouched(r)
                   /\ congestion_map' = congestion_map
                   /\ robots_to_replan' = robots_to_replan
                   /\ movements_made' = movements_made
                   /\ robots_with_commands' = robots_with_commands
                   /\ outcome' = outcome
                   /\ idx' = idx + 1
                   /\ pc' = IF idx < Len(active_robots)
                            THEN "turn" ELSE "replan"]_vars

\* in the second tick the first robot, which has never had a path, has had
\* its turn again and is still where it started with an empty queue, while
\* the second robot has just moved
NoPathIsSoftWitness ==
    /\ pc = "account"
    /\ step_count = 2
    /\ Len(active_robots) = 2
    /\ idx = 2
    /\ \E r \in {active_robots[1]} :
          /\ robot_commands[r] = <<>>
          /\ ~is_at_target(r)
          /\ Attempts(r) = 0


\* ------------------------------------------------------------------------
\* Congestion counts moves
\* ------------------------------------------------------------------------
\* the sum of the congestion counts of the cells in the set
RECURSIVE CountsIn(_)
CountsIn(cells) ==
    IF cells = {} THEN 0
    ELSE LET c == CHOOSE c \in cells : TRUE
         IN  get_congestion(c[1], c[2]) + CountsIn(cells \ {c})

\* the number of successful moves made by the robots of fleet
RECURSIVE MovesOf(_)
MovesOf(fleet) ==
    IF fleet = <<>> THEN 0
    ELSE Len(movement_history[Head(fleet)]) - 1 + MovesOf(Tail(fleet))

\* the run has started and the bookkeeping of the last move is done
CountsSettled == pc \notin {"start", "account"}

\* C33: in a run of execute_all_steps, once the bookkeeping of a move is
\* done, the congestion count of every cell is the number of moves of the
\* robots onto it (the start cells are not counted), the counts add up to
\* the number of successful moves, and after the reset at the start of the
\* run no count decreases
CongestionCountsMoves ==
    /\ [](CountsSettled =>
             /\ \A c \in GridCells(width, height) :
                   get_congestion(c[1], c[2]) = EntriesOf(active_robots, c)
             /\ CountsIn(GridCells(width, height)) = MovesOf(active_robots))
    /\ [][pc # "start" =>
             \A c \in GridCells(width, height) :
                congestion_map'[c] >= congestion_map[c]]_vars

\* a cell has been entered twice, by one robot or by two, and a robot has
\* left its start cell, which is not counted
CongestionCountsMovesWitness ==
    /\ CountsSettled
    /\ \E c \in GridCells(width, height) : get_congestion(c[1], c[2]) = 2
    /\ \E r \in Robots :
          /\ Len(movement_history[r]) > 1
          /\ get_congestion(movement_history[r][1][1],
                            movement_history[r][1][2]) = 0


\* ------------------------------------------------------------------------
\* Move counting in every direction
\* ------------------------------------------------------------------------
\* C34: successful_moves of every robot is the length of its movement
\* history minus one, and every successful move, in whatever direction,
\* adds one to successful_moves and energy_per_move to the energy
MovesCountedInEveryDirection ==
    /\ [](\A r \in Robots :
             successful_moves[r] = Len(movement_history[r]) - 1)
    /\ [][\A r \in Robots :
             Len(movement_history'[r]) = Len(movement_history[r]) + 1 =>
                /\ successful_moves'[r] = successful_moves[r] + 1
                /\ total_energy_spent'[r] =
                      total_energy_spent[r] + energy_per_move]_vars


\* ------------------------------------------------------------------------
\* The queue leads to the target
\* ------------------------------------------------------------------------
\* the tokens of robot r still to be executed: between a successful move
\* and its bookkeeping the head of the queue is the token just executed
PendingTokens(r) ==
    IF pc = "account" /\ r = TurnRobot
    THEN Tail(robot_commands[r])
    ELSE robot_commands[r]

\* C35: in a run whose queues are filled by the planner only, the tokens
\* of every non-empty queue are directions, and applying them in order to
\* the current position of the robot (right = x+1, left = x-1, down = y+1,
\* up = y-1) ends at the target of the robot
QueueLeadsToTarget ==
    \A r \in Robots :
       robot_commands[r] # <<>> =>
          /\ \A k \in DOMAIN robot_commands[r] :
                robot_commands[r][k] \in Directions
          /\ Walk(current_position[r], PendingTokens(r)) = target_position[r]

\* a robot has made a move and a token of a queue of several is left
QueueLeadsToTargetWitness ==
    /\ pc = "turn"
    /\ \E r \in Robots :
          /\ Len(movement_history[r]) > 1
          /\ robot_commands[r] # <<>>
          /\ ~is_at_target(r)


\* ------------------------------------------------------------------------
\* Arrival is final
\* ------------------------------------------------------------------------
\* C36: in a run whose queues are filled by the planner only, a robot that
\* is at its target makes no further move attempt, successful or blocked,
\* and stays at its target
ArrivalIsFinal ==
    [][\A r \in Robots :
          is_at_target(r) =>
             /\ current_position'[r] = target_position'[r]
             /\ movement_history'[r] = movement_history[r]
             /\ blocked_attempts'[r] = blocked_attempts[r]]_vars

\* the second robot arrived in the first tick; its turn in the second tick
\* has come, after a first robot that is still on its way
ArrivalIsFinalWitness ==
    /\ pc = "turn"
    /\ step_count = 2
    /\ idx = 2
    /\ Len(active_robots) = 2
    /\ is_at_target(active_robots[2])
    /\ Len(movement_history[active_robots[2]]) = 2
    /\ ~is_at_target(active_robots[1])


\* ------------------------------------------------------------------------
\* No position swap
\* ------------------------------------------------------------------------
\* the cell robot r stood on before its latest move
CellBefore(r) == movement_history[r][Len(movement_history[r]) - 1]

\* robots a and b have exchanged cells by their latest moves
Swapped(a, b) ==
    /\ Len(movement_history[a]) > 1
    /\ Len(movement_history[b]) > 1
    /\ CellBefore(a) = current_position[b]
    /\ CellBefore(b) = current_position[a]

\* C37: two robots never exchange cells, in one tick or across ticks; a
\* move never enters a cell on which a robot stands, neither a robot whose
\* turn is still to come in this tick (which stands where it stood when
\* the tick began) nor an earlier one that has not moved away
NoPositionSwap ==
    /\ [](\A a, b \in Robots : a # b => ~Swapped(a, b))
    /\ [][\A r, o \in Robots :
             (r # o /\ current_position'[r] # current_position[r]) =>
                /\ current_position'[r] # current_position[o]
                /\ current_position'[o] = current_position[o]]_vars

\* a robot has entered, in the tick in which it was left, the cell from
\* which the robot before it in the iteration order has moved away
NoPositionSwapWitness ==
    /\ pc = "account"
    /\ idx = 2
    /\ Len(active_robots) = 2
    /\ step_count = 1
    /\ current_position[active_robots[2]]
          = movement_history[active_robots[1]][1]
    /\ Len(movement_history[active_robots[1]]) = 2


\* ------------------------------------------------------------------------
\* A neighbor is one swap
\* ------------------------------------------------------------------------
\* no aisle cell of the layout other than a dock or a station is blocked
NoAisleCellBlocked(layout) ==
    \A a \in DOMAIN layout.aisles :
       \A c \in Range(layout.aisles[a]) :
          c \in layout.blocked_positions =>
             c \in Range(layout.entry_docks)
                      \cup Range(layout.packing_stations)

\* the latest get_neighbor_layout call has performed a swap
SwapPerformed == storage_to_become_aisle # <<>>

\* C38: in every layout derived by a chain of get_neighbor_layout calls
\* from a layout in which no non-infrastructure aisle cell is blocked, the
\* number of blocked cells is that of the first layout, and after every
\* call that swapped, the cell chosen to become aisle is no longer blocked
\* and the cell chosen to become storage is
NeighborIsOneSwap ==
    \E first \in {ObjectOf(0)} :
       NoAisleCellBlocked(first) =>
          /\ Cardinality(blocked_positions)
                = Cardinality(first.blocked_positions)
          /\ SwapPerformed =>
                /\ storage_to_become_aisle \notin blocked_positions
                /\ aisle_to_become_storage \in blocked_positions

\* ------------------------------------------------------------------------
\* The Pareto archive is never empty
\* ------------------------------------------------------------------------
\* C39: after the initial evaluation and after every iteration of
\* mosa_optimizer the archive holds at least one metrics tuple, and so does
\* the archive that is returned
ArchiveNeverEmpty == pc \in {"mosa", "returned"} => archive # <<>>


\* ------------------------------------------------------------------------
\* The layouts of an optimizer run as objects
\* ------------------------------------------------------------------------
\* optimization.py:138-139, 219-220 and 151-159, 232-251: the metrics of an
\* evaluation have been returned.  Those of the initial layout become the
\* current metrics; for a neighbor the acceptance test decides whether it
\* becomes the current solution.  The outcomes are those of mosa_optimizer,
\* which include those of simulated_annealing_optimizer for weights that
\* are not negative
JudgeNeighbor ==
    /\ pc = "returned"
    /\ IF iteration = 0
       THEN /\ current_metrics' = metrics
            /\ UNCHANGED <<current_solution, neighbor_metrics>>
       ELSE /\ neighbor_metrics' = metrics
            /\ \E accepted \in
                     MosaAcceptanceOutcomes(metrics, current_metrics) :
                  /\ current_solution' =
                        IF accepted THEN layout_id ELSE current_solution
                  /\ current_metrics' =
                        IF accepted THEN metrics ELSE current_metrics
    /\ pc' = "judged"
    /\ UNCHANGED <<warehouseVars, robotVars, robot_commands, step_count,
                   max_steps, movements_made, robots_with_commands,
                   robots_to_replan, idx, replan_idx, outcome, path, search,
                   evaluationVars, neighborVars, iters, iteration,
                   annealingVars, archiveVars, dominatesVars>>

\* optimization.py:88: get_neighbor_layout copies the current solution; the
\* warehouse and robot variables become those of the copy, and the object
\* they described is kept among the layouts
CopyLayout ==
    /\ pc = "judged"
    /\ iteration < iters
    /\ \E original \in {ObjectOf(current_solution)} :
          /\ layouts' = [id \in DOMAIN layouts \cup {layout_id} |->
                            ObjectOf(id)]
          /\ layout_id' = deepcopy(current_solution)
          /\ width' = original.width
          /\ height' = original.height
          /\ aisles' = original.aisles
          /\ entry_docks' = original.entry_docks
          /\ packing_stations' = original.packing_stations
          /\ active_robots' = original.active_robots
          /\ blocked_positions' = original.blocked_positions
          /\ congestion_map' = original.congestion_map
          /\ current_position' = original.current_position
          /\ target_position' = original.target_position
          /\ movement_history' = original.movement_history
          /\ total_energy_spent' = original.total_energy_spent
          /\ successful_moves' = original.successful_moves
          /\ blocked_attempts' = original.blocked_attempts
          /\ total_congestion_penalty' = original.total_congestion_penalty
    /\ pc' = "copied"
    /\ UNCHANGED <<robot_commands, step_count, max_steps, movements_made,
                   robots_with_commands, robots_to_replan, idx, replan_idx,
                   outcome, path, search, evaluationVars,
                   storage_to_become_aisle, aisle_to_become_storage,
                   loopVars, annealingVars, archiveVars, dominatesVars>>

\* optimization.py:90-130 and 150, 230: the swap is made in the copy, which
\* is returned and about to be evaluated
SwapInCopy ==
    /\ pc = "copied"
    /\ SwapCells
    /\ iteration' = iteration + 1
    /\ pc' = "evaluate"
    /\ UNCHANGED <<width, height, entry_docks, packing_stations,
                   active_robots, congestion_map, robotVars, robot_commands,
                   step_count, max_steps, movements_made,
                   robots_with_commands, robots_to_replan, idx, replan_idx,
                   outcome, path, search, evaluationVars, layouts,
                   layout_id, iters, current_solution, current_metrics,
                   neighbor_metrics, annealingVars, archiveVars,
                   dominatesVars>>

CandidateNext ==
    \/ EvaluateLayout
    \/ Simulate
    \/ ExecuteAllStepsBegin
    \/ LoopExit
    \/ LoopTimeout
    \/ StepBegin
    \/ RobotTurn
    \/ AccountMove
    \/ Replan
    \/ StepEnd
    \/ CollectMetrics
    \/ JudgeNeighbor
    \/ CopyLayout
    \/ SwapInCopy

\* an optimizer run: the initial layout is evaluated, then neighbors of the
\* current solution are derived, evaluated and judged
CandidateSpec == EvaluationInit /\ [][CandidateNext]_vars

\* get_neighbor_layout is running
DerivingNeighbor == pc \in {"judged", "copied"}

\* a neighbor is being evaluated
EvaluatingNeighbor ==
    iteration > 0 /\ pc \notin {"judged", "copied", "returned"}

\* C40: get_neighbor_layout leaves the layout it is given as it was, with
\* its blocked set, aisle lists, docks, stations, congestion map and
\* robots, and returns another object than the one it was given; and while
\* a neighbor is evaluated no layout but the neighbor changes, so neither
\* the current solution nor any layout that was the current solution
\* before, among them the best solution, changes
CandidatesNeverAlias ==
    /\ [](pc \in {"copied", "evaluate"} /\ iteration > 0 =>
             layout_id # current_solution)
    /\ [][\E c \in {current_solution} :
             /\ DerivingNeighbor => ObjectOf(c)' = ObjectOf(c)
             /\ EvaluatingNeighbor =>
                   /\ layout_id' = layout_id
                   /\ ObjectOf(c)' = ObjectOf(c)
                   /\ \A id \in DOMAIN layouts :
                         id # layout_id => ObjectOf(id)' = ObjectOf(id)]_vars

\* the second neighbor, a copy of the first, which was evaluated with a
\* robot and accepted, has moved its own robot; the first neighbor and the
\* initial layout differ from each other and from the second in their
\* blocked cells
CandidatesNeverAliasWitness ==
    /\ pc = "turn"
    /\ iteration = 2
    /\ layout_id = 2
    /\ current_solution = 1
    /\ \E r \in Robots : Len(movement_history[r]) > 1
    /\ layouts[1].active_robots # <<>>
    /\ layouts[1].blocked_positions # blocked_positions
    /\ layouts[1].blocked_positions # layouts[0].blocked_positions

====
